---- MODULE Spec2Model ----
(***************************************************************************)
(* Model of Ditado's event-driven orchestration layer:                     *)
(*   - HotkeyListener            (src/src/input/hotkey.py)                 *)
(*   - KeyCombinationCaptureDialog and the hotkey string functions         *)
(*                               (src/src/input/hotkey.py)                 *)
(*   - AudioMuter                (src/src/audio/muter.py)                  *)
(*   - AudioRecorder             (src/src/audio/recorder.py)               *)
(*   - DitadoApp pipeline        (src/src/app.py)                          *)
(* Ten specifications share the variables:                                 *)
(*   SpecHotkeyFixed  key events delivered to an enabled listener whose    *)
(*                    hotkey never changes (callbacks are only counted);   *)
(*   SpecMuter        sequences of AudioMuter.mute()/restore() calls;      *)
(*   Spec             the application's control flow: hook thread,         *)
(*                    auto-stop timer thread and processing worker;        *)
(*   SpecRun          the processing worker under every outcome of the     *)
(*                    remote calls and of the text injection;              *)
(*   SpecAudio        one user dictating, the recorder's chunks followed   *)
(*                    one by one: hook thread, workers and the PortAudio   *)
(*                    callback;                                            *)
(*   SpecRunFair      the hook thread and the workers with the settings    *)
(*                    save, under weak fairness of their steps;            *)
(*   SpecConfig       Spec together with the UI threads (tray toggle,      *)
(*                    settings save);                                      *)
(*   SpecListener     key events, set_enabled and set_hotkey calls on a    *)
(*                    listener whose callbacks are only counted;           *)
(*   SpecCapture      KeyCombinationCaptureDialog: key events, stability   *)
(*                    timers and cancel();                                 *)
(*   SpecKeyCanon     hotkey strings through parse_hotkey_string and       *)
(*                    keys_to_string.                                      *)
(***************************************************************************)
EXTENDS Integers, Sequences, FiniteSets, TLC

None == "None"

(***************************************************************************)
(* Keys.  A pynput key object is identified with its canonical name; "A"   *)
(* is the KeyCode of the upper-case character delivered by the same        *)
(* physical key as "a".                                                    *)
(***************************************************************************)
KEY_MAP == {"ctrl_l", "alt_l", "shift_l", "f1"}
SingleChars == {"a", "+"}
EventKeys == {"ctrl_l", "f1", "a", "A"}

\* str.lower() and str.strip() on the strings of the model
Lower(s) ==
    CASE s = "A" -> "a"
      [] s = "F1" -> "f1"
      [] s = " F1 " -> " f1 "
      [] s = "Ctrl_L" -> "ctrl_l"
      [] OTHER -> s
Strip(s) ==
    CASE s = " f1 " -> "f1"
      [] s = " a" -> "a"
      [] OTHER -> s
IsKeyCode(k) == Lower(k) \in SingleChars
Phys(k) == Lower(k)

key_from_string(key_str) ==
    LET k == Strip(Lower(key_str))
    IN  IF k \in KEY_MAP THEN k
        ELSE IF k \in SingleChars THEN k
        ELSE None

RECURSIVE ParseParts(_)
ParseParts(parts) ==
    IF parts = <<>> THEN <<>>
    ELSE LET key == key_from_string(Head(parts))
         IN  IF key # None THEN <<key>> \o ParseParts(Tail(parts))
             ELSE ParseParts(Tail(parts))

\* A hotkey string is modelled by the sequence of its "+"-separated parts.
parse_hotkey_string(hotkey_str) ==
    IF Len(hotkey_str) > 1 THEN ParseParts(hotkey_str)
    ELSE LET key == key_from_string(hotkey_str[1])
         IN  IF key # None THEN <<key>> ELSE <<>>

HotkeyStrings ==
    { <<"f1">>, <<"A">>, <<"bogus">>, <<"">>, <<"bogus", "">>,
      <<"ctrl_l", "f1">>, <<"ctrl_l", "a">>, <<"f1", "bogus">> }

SeqRange(s) == { s[i] : i \in 1..Len(s) }

\* key_to_string: the KEY_MAP name, the lower-cased character of a KeyCode,
\* or the enum name of a Key that KEY_MAP does not hold.
key_to_string(key) ==
    IF key \in KEY_MAP THEN key
    ELSE IF IsKeyCode(key) THEN Lower(key)
    ELSE key

\* The "+"-separated parts of a string that is one key name.
PartsOf(name) == IF name = "+" THEN <<"", "">> ELSE <<name>>

\* COMBINATION_SEPARATOR.join(names), as the parts of the joined string.
RECURSIVE JoinParts(_)
JoinParts(names) ==
    IF names = <<>> THEN <<>>
    ELSE PartsOf(Head(names)) \o JoinParts(Tail(names))

keys_to_string(keys) ==
    IF keys = <<>> THEN <<"">>
    ELSE JoinParts([i \in 1..Len(keys) |-> key_to_string(keys[i])])

VARIABLES
    \* HotkeyListener
    required_keys, pressed_keys, is_active, hk_enabled, hk_lock, phys_down,
    \* observation of the listener's callbacks
    hk_fired, last_event, span_acts, span_deacts,
    \* the physical keys that delivered a press event since the hotkey was set,
    \* and the last callback fired
    since_change, last_cb,
    \* AudioMuter and the system mixer
    sys_muted, was_muted, is_muted_by_us, volume_interface,
    \* observation of muter call sequences
    mu_trace, mu_pre, mu_mutes, mu_all_ok, mu_prev,
    \* DitadoApp
    app_enabled, settings, transcriber, enhancer, recording_timer, is_processing,
    \* AudioRecorder
    rec_recording, rec_stream, audio_data,
    \* when the chunks in _audio_data were captured
    audio_from,
    \* RecordingOverlay: the last command queued
    overlay,
    \* TrayIcon: the parity of the number of notifications shown
    tray_seq,
    \* the timer threads started for the recording that is open
    cur_timers,
    \* threads: position of the hook thread and of each timer thread, what
    \* the running deactivation handler has done so far, pending UI calls
    pc, eff, toggle_pending, save_pending,
    \* processing workers
    wk,
    \* the system mute flag as the user left it
    user_muted,
    \* KeyCombinationCaptureDialog, its timer threads and its callback
    cap_pressed_keys, cap_timer, cap_finished, cap_listening, cap_pc, cap_result,
    cap_calls,
    \* the held-key list as it was when each running stability timer was started
    cap_started,
    \* whether cancel() has returned
    cap_cancelled,
    \* a hotkey string on its way through parse_hotkey_string and
    \* keys_to_string
    kc_tokens, kc_keys, kc_out, kc_pc

hkVars == <<required_keys, pressed_keys, is_active, hk_enabled, hk_lock, phys_down>>
hkObs == <<hk_fired, last_event, span_acts, span_deacts, since_change, last_cb>>
muVars == <<sys_muted, was_muted, is_muted_by_us, volume_interface>>
muObs == <<mu_trace, mu_pre, mu_mutes, mu_all_ok, mu_prev>>

appVars == <<app_enabled, settings, transcriber, enhancer, recording_timer, is_processing>>
recVars == <<rec_recording, rec_stream, audio_data, audio_from>>
thrVars == <<pc, eff, toggle_pending, save_pending>>
pipeVars == <<appVars, recVars, overlay, tray_seq, cur_timers, thrVars, wk,
             user_muted>>

capVars == <<cap_pressed_keys, cap_timer, cap_finished, cap_listening, cap_pc,
             cap_result, cap_calls, cap_started, cap_cancelled>>
kcVars == <<kc_tokens, kc_keys, kc_out, kc_pc>>
toolVars == <<capVars, kcVars>>

vars == <<hkVars, hkObs, muVars, muObs, pipeVars, toolVars>>

(***************************************************************************)
(* HotkeyListener                                                          *)
(***************************************************************************)
RECURSIVE MatchFrom(_, _, _)
MatchFrom(key, req, i) ==
    IF i > Len(req) THEN None
    ELSE IF key = req[i] THEN req[i]
    ELSE IF IsKeyCode(key) /\ IsKeyCode(req[i]) /\ Lower(key) = Lower(req[i])
         THEN req[i]
    ELSE MatchFrom(key, req, i + 1)

key_matches_required(key, req) == MatchFrom(key, req, 1)

all_required_keys_pressed(req, pressed) ==
    IF req = <<>> THEN FALSE
    ELSE \A i \in 1..Len(req) : req[i] \in pressed

\* The activation test of _handle_press (line 246).
PressMayActivate_mut(active, req, pressed) ==
    all_required_keys_pressed(req, pressed)
PressMayActivate(active, req, pressed) ==
    ~active /\ all_required_keys_pressed(req, pressed)

\* _handle_press taking an empty key list for "no key needed"
handle_press_mut(key, enabled, req, pressed, active) ==
    IF ~enabled
    THEN [pressed |-> pressed, active |-> active, fire |-> FALSE]
    ELSE LET matched_key == key_matches_required(key, req)
         IN  IF matched_key = None /\ req # <<>>
             THEN [pressed |-> pressed, active |-> active, fire |-> FALSE]
             ELSE LET p == pressed \cup {matched_key}
                  IN  IF ~active /\ \A i \in 1..Len(req) : req[i] \in p
                      THEN [pressed |-> p, active |-> TRUE, fire |-> TRUE]
                      ELSE [pressed |-> p, active |-> active, fire |-> FALSE]

\* _handle_press up to the callback: the new listener state and whether
\* on_press fires.
handle_press(key, enabled, req, pressed, active) ==
    IF ~enabled
    THEN [pressed |-> pressed, active |-> active, fire |-> FALSE]
    ELSE LET matched_key == key_matches_required(key, req)
         IN  IF matched_key = None
             THEN [pressed |-> pressed, active |-> active, fire |-> FALSE]
             ELSE LET p == pressed \cup {matched_key}
                  IN  IF PressMayActivate(active, req, p)
                      THEN [pressed |-> p, active |-> TRUE, fire |-> TRUE]
                      ELSE [pressed |-> p, active |-> active, fire |-> FALSE]

\* _handle_release deactivating only when the last required key goes up
handle_release_mut(key, enabled, req, pressed, active) ==
    IF ~enabled
    THEN [pressed |-> pressed, active |-> active, fire |-> FALSE]
    ELSE LET matched_key == key_matches_required(key, req)
         IN  IF matched_key = None
             THEN [pressed |-> pressed, active |-> active, fire |-> FALSE]
             ELSE LET p == pressed \ {matched_key}
                  IN  IF active /\ p = {}
                      THEN [pressed |-> p, active |-> FALSE, fire |-> TRUE]
                      ELSE [pressed |-> p, active |-> active, fire |-> FALSE]

\* _handle_release up to the callback.
handle_release(key, enabled, req, pressed, active) ==
    IF ~enabled
    THEN [pressed |-> pressed, active |-> active, fire |-> FALSE]
    ELSE LET matched_key == key_matches_required(key, req)
         IN  IF matched_key = None
             THEN [pressed |-> pressed, active |-> active, fire |-> FALSE]
             ELSE LET p == pressed \ {matched_key}
                  IN  IF active
                      THEN [pressed |-> p, active |-> FALSE, fire |-> TRUE]
                      ELSE [pressed |-> p, active |-> active, fire |-> FALSE]

AllHeld(req, down) == req # <<>> /\ \A i \in 1..Len(req) : Phys(req[i]) \in down

HotkeyListenerInit(hotkey) ==
    /\ required_keys = parse_hotkey_string(hotkey)
    /\ pressed_keys = {}
    /\ is_active = FALSE
    /\ hk_enabled = TRUE
    /\ hk_lock = FALSE
    /\ phys_down = {}

hkObsInit ==
    /\ hk_fired = "none"
    /\ last_event = <<"none", None>>
    /\ span_acts = 0
    /\ span_deacts = 0
    /\ since_change = {}
    /\ last_cb = "none"

\* Bookkeeping of callbacks per span in which all required keys are held;
\* the counts stop at MaxCount.
MaxCount == 2
Capped(n) == IF n > MaxCount THEN MaxCount ELSE n

ObserveKeyEvent(type, key, fired, down2) ==
    LET held == AllHeld(required_keys, phys_down)
        held2 == AllHeld(required_keys, down2)
        a == IF fired = "activate" THEN 1 ELSE 0
        d == IF fired = "deactivate" THEN 1 ELSE 0
    IN  /\ hk_fired' = fired
        /\ last_event' = <<type, key>>
        /\ span_acts' = IF held2 THEN (IF held THEN Capped(span_acts + a) ELSE a) ELSE 0
        /\ span_deacts' = IF held2 /\ ~held THEN 0 ELSE Capped(span_deacts + d)
        /\ since_change' = IF type = "press" THEN since_change \cup {Phys(key)}
                                             ELSE since_change
        /\ last_cb' = IF fired = "none" THEN last_cb ELSE fired

\* A press event (first press or auto-repeat) handled with instantaneous
\* callbacks.
KeyPress(key) ==
    LET r == handle_press(key, hk_enabled, required_keys, pressed_keys, is_active)
        down2 == phys_down \cup {Phys(key)}
    IN  /\ phys_down' = down2
        /\ pressed_keys' = r.pressed
        /\ is_active' = r.active
        /\ ObserveKeyEvent("press", key, IF r.fire THEN "activate" ELSE "none", down2)
        /\ UNCHANGED <<required_keys, hk_enabled, hk_lock>>

KeyRelease(key) ==
    /\ Phys(key) \in phys_down
    /\ LET r == handle_release(key, hk_enabled, required_keys, pressed_keys, is_active)
           down2 == phys_down \ {Phys(key)}
       IN  /\ phys_down' = down2
           /\ pressed_keys' = r.pressed
           /\ is_active' = r.active
           /\ ObserveKeyEvent("release", key, IF r.fire THEN "deactivate" ELSE "none", down2)
           /\ UNCHANGED <<required_keys, hk_enabled, hk_lock>>

\* set_enabled() and set_hotkey() called on a listener whose callbacks
\* are only counted.
ListenerSetEnabled(enabled) ==
    /\ hk_enabled' = enabled
    /\ hk_fired' = "none"
    /\ last_event' = <<"set_enabled", None>>
    /\ UNCHANGED <<required_keys, pressed_keys, is_active, hk_lock, phys_down,
                   span_acts, span_deacts, since_change, last_cb>>

\* set_hotkey() keeping the pressed set
ListenerSetHotkey_mut(hotkey) ==
    /\ required_keys' = parse_hotkey_string(hotkey)
    /\ is_active' = FALSE
    /\ hk_fired' = "none"
    /\ last_event' = <<"set_hotkey", None>>
    /\ span_acts' = 0
    /\ span_deacts' = 0
    /\ since_change' = {}
    /\ UNCHANGED <<pressed_keys, hk_enabled, hk_lock, phys_down, last_cb>>

ListenerSetHotkey(hotkey) ==
    /\ required_keys' = parse_hotkey_string(hotkey)
    /\ pressed_keys' = {}
    /\ is_active' = FALSE
    /\ hk_fired' = "none"
    /\ last_event' = <<"set_hotkey", None>>
    /\ span_acts' = 0
    /\ span_deacts' = 0
    /\ since_change' = {}
    /\ UNCHANGED <<hk_enabled, hk_lock, phys_down, last_cb>>

(***************************************************************************)
(* AudioMuter                                                              *)
(***************************************************************************)
PYCAW_AVAILABLE == TRUE

BoolStr(b) == IF b THEN "True" ELSE "False"

MuteOutcomes == {"ok", "noiface", "exc_get", "exc_set"}
RestoreOutcomes == {"ok", "noiface", "exc"}

\* _get_volume_interface: the cached interface never fails.
InterfaceFails(out) == out = "noiface" /\ ~volume_interface

AudioMuterInit ==
    /\ was_muted = None
    /\ is_muted_by_us = FALSE
    /\ volume_interface = FALSE

\* AudioMuter.mute(); out is what the COM calls do this time.
\* The result record gives the new fields and the return value.
mute(out) ==
    IF ~PYCAW_AVAILABLE \/ InterfaceFails(out)
    THEN [sys |-> sys_muted, was |-> was_muted, byus |-> is_muted_by_us,
          vol |-> volume_interface, ret |-> FALSE]
    ELSE IF out = "exc_get" \/ (out = "exc_set" /\ ~sys_muted)
    THEN [sys |-> sys_muted, was |-> None, byus |-> FALSE,
          vol |-> TRUE, ret |-> FALSE]
    ELSE IF ~sys_muted
    THEN [sys |-> TRUE, was |-> BoolStr(sys_muted), byus |-> TRUE,
          vol |-> TRUE, ret |-> TRUE]
    ELSE [sys |-> sys_muted, was |-> BoolStr(sys_muted), byus |-> is_muted_by_us,
          vol |-> TRUE, ret |-> TRUE]

\* The early return of restore() (line 154).
RestoreSkips == ~is_muted_by_us

\* restore() written as an unconditional unmute
restore_mut(out) ==
    [sys |-> FALSE, was |-> None, byus |-> FALSE, vol |-> TRUE, ret |-> TRUE]

\* AudioMuter.restore()
restore(out) ==
    IF ~PYCAW_AVAILABLE
    THEN [sys |-> sys_muted, was |-> was_muted, byus |-> is_muted_by_us,
          vol |-> volume_interface, ret |-> FALSE]
    ELSE IF RestoreSkips
    THEN [sys |-> sys_muted, was |-> was_muted, byus |-> is_muted_by_us,
          vol |-> volume_interface, ret |-> TRUE]
    ELSE IF InterfaceFails(out)
    THEN [sys |-> sys_muted, was |-> was_muted, byus |-> is_muted_by_us,
          vol |-> volume_interface, ret |-> FALSE]
    ELSE IF was_muted = "False" /\ out = "exc"
    THEN [sys |-> sys_muted, was |-> was_muted, byus |-> is_muted_by_us,
          vol |-> TRUE, ret |-> FALSE]
    ELSE [sys |-> IF was_muted = "False" THEN FALSE ELSE sys_muted,
          was |-> None, byus |-> FALSE, vol |-> TRUE, ret |-> TRUE]

ApplyMuter(r) ==
    /\ sys_muted' = r.sys
    /\ was_muted' = r.was
    /\ is_muted_by_us' = r.byus
    /\ volume_interface' = r.vol

MaxOps == 4

muObsInit ==
    /\ mu_trace = <<>>
    /\ mu_pre = FALSE
    /\ mu_mutes = 0
    /\ mu_all_ok = TRUE
    /\ mu_prev = [sys |-> FALSE, was |-> None, byus |-> FALSE]

\* mu_pre is the system flag before the first mute() of the current group
\* (the calls since the last restore()), mu_mutes the number of mute() calls
\* of the group, mu_all_ok whether every call of the group returned True,
\* mu_prev the muter state before the latest call.
NewGroup == mu_trace = <<>> \/ mu_trace[Len(mu_trace)][1] = "restore"

MuteCall(out) ==
    /\ Len(mu_trace) < MaxOps
    /\ LET r == mute(out)
       IN  /\ ApplyMuter(r)
           /\ mu_trace' = Append(mu_trace, <<"mute", r.ret>>)
           /\ mu_pre' = IF NewGroup THEN sys_muted ELSE mu_pre
           /\ mu_mutes' = IF NewGroup THEN 1 ELSE mu_mutes + 1
           /\ mu_all_ok' = ((NewGroup \/ mu_all_ok) /\ r.ret)
           /\ mu_prev' = [sys |-> sys_muted, was |-> was_muted, byus |-> is_muted_by_us]

RestoreCall(out) ==
    /\ Len(mu_trace) < MaxOps
    /\ LET r == restore(out)
       IN  /\ ApplyMuter(r)
           /\ mu_trace' = Append(mu_trace, <<"restore", r.ret>>)
           /\ mu_all_ok' = (mu_all_ok /\ r.ret)
           /\ mu_prev' = [sys |-> sys_muted, was |-> was_muted, byus |-> is_muted_by_us]
           /\ UNCHANGED <<mu_pre, mu_mutes>>

(***************************************************************************)
(* AudioRecorder.  What the stream delivered while it was open is an input *)
(* of stop(): the number of quarter-second chunks and whether their        *)
(* average level is above the noise floor.  audio_data is _audio_data as   *)
(* start() and stop() see it.                                              *)
(***************************************************************************)
MaxChunks == 2
MIN_CHUNKS == 2
Captured == [chunks : 0..MaxChunks, loud : BOOLEAN]
NoFrames == [chunks |-> 0, loud |-> FALSE]

\* AudioRecorder.start(); out is whether the capture device opens.
start(out) ==
    IF rec_recording
    THEN [recording |-> TRUE, stream |-> rec_stream, audio |-> audio_data,
          ret |-> TRUE]
    ELSE IF out = "ok"
    THEN [recording |-> TRUE, stream |-> TRUE, audio |-> NoFrames, ret |-> TRUE]
    ELSE [recording |-> FALSE, stream |-> rec_stream, audio |-> NoFrames,
          ret |-> FALSE]

\* stop() without the minimum-duration test
stop_mut(audio) ==
    IF ~rec_recording
    THEN [recording |-> FALSE, stream |-> rec_stream, audio |-> audio_data,
          ret |-> None]
    ELSE [recording |-> FALSE, stream |-> FALSE, audio |-> audio,
          ret |-> IF audio.chunks = 0 THEN None
                  ELSE IF ~audio.loud THEN None
                  ELSE "wav"]

\* AudioRecorder.stop(); ret is None or the WAV payload.
stop(audio) ==
    IF ~rec_recording
    THEN [recording |-> FALSE, stream |-> rec_stream, audio |-> audio_data,
          ret |-> None]
    ELSE [recording |-> FALSE, stream |-> FALSE, audio |-> audio,
          ret |-> IF audio.chunks = 0 THEN None
                  ELSE IF audio.chunks < MIN_CHUNKS THEN None
                  ELSE IF ~audio.loud THEN None
                  ELSE "wav"]

AudioRecorderInit ==
    /\ rec_recording = FALSE
    /\ rec_stream = FALSE
    /\ audio_data = NoFrames
    /\ audio_from = {}

(***************************************************************************)
(* DitadoApp                                                               *)
(***************************************************************************)
MAX_RETRIES == 3
RETRY_DELAYS == <<1, 2, 4>>

MaxTimers == 2
MaxWorkers == 2
TimerIds == 1..MaxTimers
WorkerIds == 1..MaxWorkers
Hook == 0
NoTimer == -1
Threads == {Hook} \cup TimerIds

AppHotkeys == { <<"f1">> }
AppEventKeys == {"f1"}

\* The Settings fields the pipeline reads; api_key is whether a key is set,
\* auto_stop is auto_stop_recording and max_recording_seconds > 0.
SettingsSet ==
    [hotkey : AppHotkeys, api_key : BOOLEAN, mute_system_audio : BOOLEAN,
     enhance_text : BOOLEAN, auto_stop : BOOLEAN]

DefaultSettings ==
    [hotkey |-> <<"f1">>, api_key |-> TRUE, mute_system_audio |-> TRUE,
     enhance_text |-> TRUE, auto_stop |-> TRUE]
Differences(a, b) ==
    Cardinality({ f \in DOMAIN a : a[f] # b[f] })
\* The settings the model starts from and saves: the defaults with at most
\* one field changed.
SavedSettings == { st \in SettingsSet : Differences(st, DefaultSettings) <= 1 }

ErrorKinds == {"auth", "rate_limit", "network"}
TranscribeResults == {"", "raw"} \cup ErrorKinds
EnhanceResults == {"same", "changed", "err"}
StartOutcomes == {"ok", "fail"}

\* The locals of one _process_audio run and what the run has done.
FreshRun ==
    [pc |-> "W0", text |-> None, attempt |-> 0, last_error |-> None,
     tr_attempts |-> 0, tr_slept |-> 0, tr_ok |-> FALSE, auth_first |-> FALSE,
     en_attempts |-> 0, en_slept |-> 0, en_failed |-> FALSE,
     notified |-> FALSE, typed |-> None, inj_calls |-> 0, delivered |-> 0,
     inj_trace |-> <<>>,
     stats |-> FALSE, hist |-> None]
NoRun == [FreshRun EXCEPT !.pc = "free"]

Done(self) == IF self = Hook THEN "idle" ELSE "free"
FreeTimers == { t \in TimerIds : pc[t] = "free" /\ recording_timer # t }
FreeWorkers == { w \in WorkerIds : wk[w].pc = "free" }
Min(S) == CHOOSE x \in S : \A y \in S : x <= y

DitadoAppInit ==
    /\ app_enabled = TRUE
    /\ settings \in SavedSettings
    /\ transcriber = settings.api_key
    /\ enhancer = (settings.api_key /\ settings.enhance_text)
    /\ recording_timer = NoTimer
    /\ is_processing = FALSE
    /\ overlay = "none"
    /\ tray_seq = 0
    /\ cur_timers = {}
    /\ pc = [t \in Threads |-> Done(t)]
    /\ eff = [t \in Threads |-> {}]
    /\ toggle_pending = FALSE
    /\ save_pending = FALSE
    /\ wk = [w \in WorkerIds |-> NoRun]

\* ---- PortAudio thread: AudioRecorder._audio_callback ---------------------
\* A chunk is captured during the activation that is open ("cur": from its
\* edge to the return of its deactivation handler), during an activation
\* before it ("old"), or between two activations ("gap").
InActivation ==
    \/ is_active
    \/ pc[Hook] # "idle"
    \/ \E t \in TimerIds : pc[t] \notin {"free", "pending"}

\* A new activation edge turns the chunks of the open one into old ones.
AtActivationEdge(from) == { IF x = "cur" THEN "old" ELSE x : x \in from }

\* _audio_callback, on the PortAudio thread of a running stream: append the
\* chunk, no lock taken.
audio_callback ==
    /\ rec_stream
    /\ audio_from' = audio_from \cup {IF InActivation THEN "cur" ELSE "gap"}
    /\ UNCHANGED <<rec_recording, rec_stream, audio_data>>

\* The content drawn at stop() agrees with the chunks appended.
Appended(audio) == audio.chunks = 0 <=> audio_from = {}

\* A notification that never reaches the tray
show_notification_mut == tray_seq
\* TrayIcon.show_notification as the handlers call it
show_notification == (tray_seq + 1) % 2

\* A handler that stays where it is instead of returning
Return_mut(self) == UNCHANGED <<pc, eff, hk_lock>>

\* A handler that returns with the listener lock still taken
Return_locked_mut(self) ==
    /\ pc' = [pc EXCEPT ![self] = Done(self)]
    /\ eff' = [eff EXCEPT ![self] = {}]
    /\ UNCHANGED hk_lock

\* The handler running on thread self returns to its caller.
Return(self) ==
    /\ pc' = [pc EXCEPT ![self] = Done(self)]
    /\ eff' = [eff EXCEPT ![self] = {}]
    /\ hk_lock' = IF self = Hook THEN FALSE ELSE hk_lock

\* ---- hook thread: HotkeyListener._handle_press / _handle_release --------
HookPress(key) ==
    /\ pc[Hook] = "idle"
    /\ LET r == handle_press(key, hk_enabled, required_keys, pressed_keys, is_active)
       IN  /\ r.fire => FreeTimers # {}
           /\ phys_down' = phys_down \cup {Phys(key)}
           /\ pressed_keys' = r.pressed
           /\ is_active' = r.active
           /\ hk_lock' = r.fire
           /\ pc' = [pc EXCEPT ![Hook] = IF r.fire THEN "P1" ELSE "idle"]
           /\ audio_from' = IF r.fire THEN AtActivationEdge(audio_from) ELSE audio_from
    /\ UNCHANGED <<required_keys, hk_enabled, hkObs, muVars, muObs, toolVars, cur_timers, tray_seq, appVars,
                   rec_recording, rec_stream, audio_data, overlay, eff,
                   toggle_pending, save_pending, wk, user_muted>>

HookRelease(key) ==
    /\ pc[Hook] = "idle"
    /\ Phys(key) \in phys_down
    /\ LET r == handle_release(key, hk_enabled, required_keys, pressed_keys, is_active)
       IN  /\ phys_down' = phys_down \ {Phys(key)}
           /\ pressed_keys' = r.pressed
           /\ is_active' = r.active
           /\ hk_lock' = r.fire
           /\ pc' = [pc EXCEPT ![Hook] = IF r.fire THEN "R0" ELSE "idle"]
    /\ UNCHANGED <<required_keys, hk_enabled, hkObs, muVars, muObs, toolVars, cur_timers, tray_seq, appVars,
                   recVars, overlay, eff, toggle_pending, save_pending, wk,
                   user_muted>>

\* ---- DitadoApp._on_hotkey_press ------------------------------------------
\* lines 302-318: the configuration check, the start cue, mute, overlay
on_hotkey_press_arm(out) ==
    /\ pc[Hook] = "P1"
    /\ IF ~app_enabled \/ ~settings.api_key
       THEN /\ Return(Hook)
            /\ UNCHANGED <<muVars, overlay>>
       ELSE /\ IF settings.mute_system_audio
               THEN ApplyMuter(mute(out))
               ELSE UNCHANGED muVars
            /\ overlay' = "recording"
            /\ pc' = [pc EXCEPT ![Hook] = "P2"]
            /\ UNCHANGED <<eff, hk_lock>>
    /\ UNCHANGED <<required_keys, pressed_keys, is_active, hk_enabled, phys_down,
                   hkObs, muObs, toolVars, cur_timers, tray_seq, appVars, recVars, toggle_pending, save_pending,
                   wk, user_muted>>

\* lines 321-341: start the recorder; roll back on failure, else schedule
\* the auto-stop timer
on_hotkey_press_start(out, o) ==
    /\ pc[Hook] = "P2"
    /\    LET r == start(out)
          IN  /\ rec_recording' = r.recording
              /\ rec_stream' = r.stream
              /\ audio_data' = r.audio
              /\ audio_from' = IF rec_recording THEN audio_from ELSE {}
              /\ IF ~r.ret
                 THEN /\ tray_seq' = show_notification
                      /\ overlay' = "hide"
                      /\ IF settings.mute_system_audio
                         THEN ApplyMuter(restore(o))
                         ELSE UNCHANGED muVars
                      /\ Return(Hook)
                      /\ UNCHANGED <<recording_timer, cur_timers>>
                 ELSE /\ IF settings.auto_stop
                         THEN LET t == Min(FreeTimers)
                              IN  /\ recording_timer' = t
                                  /\ cur_timers' = IF rec_recording
                                                   THEN cur_timers \cup {t} ELSE {t}
                                  /\ pc' = [pc EXCEPT ![Hook] = "idle", ![t] = "pending"]
                         ELSE /\ pc' = [pc EXCEPT ![Hook] = "idle"]
                              /\ cur_timers' = IF rec_recording THEN cur_timers ELSE {}
                              /\ UNCHANGED recording_timer
                      /\ eff' = [eff EXCEPT ![Hook] = {}]
                      /\ hk_lock' = FALSE
                      /\ UNCHANGED <<muVars, overlay, tray_seq>>
    /\ UNCHANGED <<required_keys, pressed_keys, is_active, hk_enabled, phys_down,
                   hkObs, muObs, toolVars, app_enabled, settings, transcriber, enhancer,
                   is_processing, toggle_pending, save_pending, wk, user_muted>>

\* ---- timer thread: threading.Timer.run and _auto_stop_recording ----------
TimerFires(self) ==
    /\ pc[self] = "pending"
    /\ pc' = [pc EXCEPT ![self] = "A0"]
    /\ UNCHANGED <<hkVars, hkObs, muVars, muObs, toolVars, cur_timers, tray_seq, appVars, recVars, overlay,
                   eff, toggle_pending, save_pending, wk, user_muted>>

auto_stop_recording(self) ==
    /\ pc[self] = "A0"
    /\ pc' = [pc EXCEPT ![self] = IF rec_recording THEN "R0" ELSE "free"]
    /\ tray_seq' = IF rec_recording THEN show_notification ELSE tray_seq
    /\ UNCHANGED <<hkVars, hkObs, muVars, muObs, toolVars, cur_timers, appVars, recVars, overlay,
                   eff, toggle_pending, save_pending, wk, user_muted>>

\* ---- DitadoApp._on_hotkey_release, run by the hook thread or a timer -----
\* line 357: the test of the timer handle
on_hotkey_release_check_timer(self) ==
    /\ pc[self] = "R0"
    /\ pc' = [pc EXCEPT ![self] = IF recording_timer # NoTimer THEN "R0b" ELSE "R1"]
    /\ UNCHANGED <<hkVars, hkObs, muVars, muObs, toolVars, cur_timers, tray_seq, appVars, recVars, overlay,
                   eff, toggle_pending, save_pending, wk, user_muted>>

\* lines 358-359: cancel() on the handle read again, then clear it.  A
\* handle cleared in between raises AttributeError and ends the thread.
on_hotkey_release_cancel_timer(self) ==
    /\ pc[self] = "R0b"
    /\ IF recording_timer = NoTimer
       THEN /\ pc' = [pc EXCEPT ![self] = IF self = Hook THEN "dead" ELSE "free"]
            /\ eff' = [eff EXCEPT ![self] = {}]
            /\ hk_lock' = IF self = Hook THEN FALSE ELSE hk_lock
            /\ UNCHANGED recording_timer
       ELSE /\ pc' = [pc EXCEPT ![self] = "R1",
                                ![recording_timer] =
                                    IF recording_timer # self /\ pc[recording_timer] = "pending"
                                    THEN "free" ELSE @]
            /\ recording_timer' = NoTimer
            /\ eff' = [eff EXCEPT ![self] = @ \cup {"timer"}]
            /\ UNCHANGED hk_lock
    /\ UNCHANGED <<required_keys, pressed_keys, is_active, hk_enabled, phys_down,
                   hkObs, muVars, muObs, toolVars, cur_timers, tray_seq, app_enabled, settings, transcriber,
                   enhancer, is_processing, recVars, overlay, toggle_pending,
                   save_pending, wk, user_muted>>

\* lines 362-366: restore the system audio, play the end cue
on_hotkey_release_restore(self, out) ==
    /\ pc[self] = "R1"
    /\ IF settings.mute_system_audio
       THEN    LET r == restore(out)
               IN  /\ ApplyMuter(r)
                   /\ eff' = [eff EXCEPT ![self] =
                                 @ \cup {"sound"} \cup
                                 (IF r.sys # sys_muted \/ r.byus # is_muted_by_us
                                  THEN {"mute"} ELSE {})]
       ELSE /\ UNCHANGED muVars
            /\ eff' = [eff EXCEPT ![self] = @ \cup {"sound"}]
    /\ pc' = [pc EXCEPT ![self] = "R2"]
    /\ UNCHANGED <<hkVars, hkObs, muObs, toolVars, cur_timers, tray_seq, appVars, recVars, overlay,
                   toggle_pending, save_pending, wk, user_muted>>

\* line 368
on_hotkey_release_check_recording(self) ==
    /\ pc[self] = "R2"
    /\ IF ~app_enabled \/ ~rec_recording
       THEN Return(self)
       ELSE /\ pc' = [pc EXCEPT ![self] = "R3"]
            /\ UNCHANGED <<eff, hk_lock>>
    /\ UNCHANGED <<required_keys, pressed_keys, is_active, hk_enabled, phys_down,
                   hkObs, muVars, muObs, toolVars, cur_timers, tray_seq, appVars, recVars, overlay,
                   toggle_pending, save_pending, wk, user_muted>>

\* lines 372-376: the processing guard
GuardDrops_mut == FALSE
GuardDrops == is_processing

on_hotkey_release_guard(self) ==
    /\ pc[self] = "R3"
    /\ IF GuardDrops
       THEN /\ Return(self)
            /\ UNCHANGED is_processing
       ELSE /\ is_processing' = TRUE
            /\ pc' = [pc EXCEPT ![self] = "R4"]
            /\ UNCHANGED <<eff, hk_lock>>
    /\ UNCHANGED <<required_keys, pressed_keys, is_active, hk_enabled, phys_down,
                   hkObs, muVars, muObs, toolVars, cur_timers, tray_seq, app_enabled, settings, transcriber,
                   enhancer, recording_timer, recVars, overlay, toggle_pending,
                   save_pending, wk, user_muted>>

\* lines 379-401: stop the recorder; give up on no audio, else start the
\* worker thread
on_hotkey_release_stop(self, audio) ==
    /\ pc[self] = "R4"
    /\ LET r == stop(audio)
       IN  /\ rec_recording' = r.recording
           /\ rec_stream' = r.stream
           /\ audio_data' = r.audio
           /\ UNCHANGED audio_from
           /\ IF r.ret = None
              THEN /\ overlay' = "hide"
                   /\ is_processing' = FALSE
                   /\ UNCHANGED wk
              ELSE /\ overlay' = "transcribing"
                   /\ FreeWorkers # {}
                   /\ wk' = [wk EXCEPT ![Min(FreeWorkers)] = FreshRun]
                   /\ UNCHANGED is_processing
    /\ cur_timers' = IF rec_recording THEN {} ELSE cur_timers
    /\ Return(self)
    /\ UNCHANGED <<required_keys, pressed_keys, is_active, hk_enabled, phys_down,
                   hkObs, muVars, muObs, toolVars, tray_seq, app_enabled, settings, transcriber,
                   enhancer, recording_timer, toggle_pending, save_pending,
                   user_muted>>

\* ---- worker thread: DitadoApp._process_audio / _process_audio_inner ------
\* lines 414-419
process_audio_check_transcriber(w) ==
    /\ wk[w].pc = "W0"
    /\ IF ~transcriber
       THEN /\ wk' = [wk EXCEPT ![w] = [@ EXCEPT !.notified = TRUE, !.pc = "Wfin"]]
            /\ tray_seq' = show_notification
            /\ overlay' = "hide"
       ELSE /\ wk' = [wk EXCEPT ![w] = [@ EXCEPT !.pc = "Wtr"]]
            /\ UNCHANGED <<overlay, tray_seq>>
    /\ UNCHANGED <<hkVars, hkObs, muVars, muObs, toolVars, cur_timers, appVars, recVars, thrVars, user_muted>>

\* WhisperTranscriber.transcribe, lines 73-87: the exception that leaves
\* transcribe() for each kind of API failure.
transcribe_raises_mut(kind) ==
    IF kind = "auth" THEN "AuthenticationError" ELSE "TranscriptionError"
transcribe_raises(kind) == "TranscriptionError"

\* line 440 and line 480: is the failed attempt followed by a sleep
TrSleeps_mut(attempt) == TRUE
TrSleeps(attempt) == attempt < MAX_RETRIES - 1
EnSleeps(attempt) == attempt < MAX_RETRIES - 1

\* lines 431-447: one pass of the transcription loop; res is the transcript
\* ("" when nothing was said) or the kind of failure
transcribe_attempt(w, res) ==
    /\ wk[w].pc = "Wtr"
    /\    LET run == wk[w]
              more == run.attempt + 1 < MAX_RETRIES
          IN  IF res \notin ErrorKinds
              THEN wk' = [wk EXCEPT ![w] =
                            [run EXCEPT !.text = res, !.tr_attempts = @ + 1,
                                        !.tr_ok = TRUE,
                                        !.attempt = 0, !.pc = "Wchk"]]
              ELSE IF transcribe_raises(res) # "TranscriptionError"
              THEN wk' = [wk EXCEPT ![w] =
                            [run EXCEPT !.tr_attempts = @ + 1,
                                        !.auth_first = IF run.attempt = 0 THEN res = "auth" ELSE @,
                                        !.attempt = 0, !.pc = "Wfin"]]
              ELSE wk' = [wk EXCEPT ![w] =
                            [run EXCEPT !.last_error = res, !.tr_attempts = @ + 1,
                                        !.auth_first = IF run.attempt = 0 THEN res = "auth" ELSE @,
                                        !.tr_slept = IF TrSleeps(run.attempt)
                                                     THEN @ + RETRY_DELAYS[run.attempt + 1]
                                                     ELSE @,
                                        !.attempt = IF more THEN @ + 1 ELSE 0,
                                        !.pc = IF more THEN "Wtr" ELSE "Wchk"]]
    /\ UNCHANGED <<hkVars, hkObs, muVars, muObs, toolVars, cur_timers, tray_seq, appVars, recVars, overlay,
                   thrVars, user_muted>>

\* line 449: the run is given up without a transcript
NoTranscript_mut(text) == text = ""
NoTranscript(text) == text = None \/ text = ""

\* lines 449-467: abort without a transcript, else go on to enhancement or
\* to typing
process_audio_check_text(w) ==
    /\ wk[w].pc = "Wchk"
    /\ LET run == wk[w]
       IN  IF NoTranscript(run.text)
           THEN /\ wk' = [wk EXCEPT ![w] =
                            [run EXCEPT !.notified = (run.last_error # None),
                                        !.pc = "Wfin"]]
                /\ tray_seq' = IF run.last_error # None
                               THEN show_notification ELSE tray_seq
                /\ overlay' = "hide"
           ELSE IF settings.enhance_text /\ enhancer
           THEN /\ wk' = [wk EXCEPT ![w] = [run EXCEPT !.pc = "Wen"]]
                /\ overlay' = "enhancing"
                /\ UNCHANGED tray_seq
           ELSE /\ wk' = [wk EXCEPT ![w] = [run EXCEPT !.pc = "Wtype"]]
                /\ UNCHANGED <<overlay, tray_seq>>
    /\ UNCHANGED <<hkVars, hkObs, muVars, muObs, toolVars, cur_timers, appVars, recVars, thrVars, user_muted>>

\* line 486-488: the text the run continues with when enhancement is
\* exhausted
AfterEnhancementFailure_mut(text) == None
AfterEnhancementFailure(text) == text

\* lines 468-488: one pass of the enhancement loop; res is whether enhance()
\* returned the text unchanged, returned another text, or failed
enhance_attempt(w, res) ==
    /\ wk[w].pc = "Wen"
    /\    LET run == wk[w]
              more == run.attempt + 1 < MAX_RETRIES
          IN  IF res # "err"
              THEN wk' = [wk EXCEPT ![w] =
                            [run EXCEPT !.text = IF res = "changed" THEN "enh" ELSE @,
                                        !.en_attempts = @ + 1,
                                        !.attempt = 0, !.pc = "Wtype"]]
              ELSE wk' = [wk EXCEPT ![w] =
                            [run EXCEPT !.en_attempts = @ + 1,
                                        !.en_slept = IF EnSleeps(run.attempt)
                                                     THEN @ + RETRY_DELAYS[run.attempt + 1]
                                                     ELSE @,
                                        !.en_failed = ~more,
                                        !.text = IF more THEN @ ELSE AfterEnhancementFailure(@),
                                        !.attempt = IF more THEN @ + 1 ELSE 0,
                                        !.pc = IF more THEN "Wen" ELSE "Wtype"]]
    /\ UNCHANGED <<hkVars, hkObs, muVars, muObs, toolVars, cur_timers, tray_seq, appVars, recVars, overlay,
                   thrVars, user_muted>>

\* One injection attempt: the method and whether it worked.
Attempt(m, ok) == [m |-> m, ok |-> ok]

\* TextTyper._type_via_keyboard; k is whether pyautogui raises.
type_via_keyboard(k) ==
    [ok |-> k = "ok", calls |-> 1, delivered |-> IF k = "ok" THEN 1 ELSE 0,
     trace |-> << Attempt("keyboard", k = "ok") >>]

\* TextTyper._type_via_clipboard; c is whether the clipboard path raises
\* before or after the paste reached the application.
type_via_clipboard(c, k) ==
    IF c = "ok"
    THEN [ok |-> TRUE, calls |-> 1, delivered |-> 1,
          trace |-> << Attempt("clipboard", TRUE) >>]
    ELSE LET kb == type_via_keyboard(k)
         IN  [ok |-> kb.ok, calls |-> 1 + kb.calls,
              delivered |-> (IF c = "exc_post" THEN 1 ELSE 0) + kb.delivered,
              trace |-> << Attempt("clipboard", FALSE) >> \o kb.trace]

\* TextTyper.type_text with use_clipboard = False
type_text_mut(text, c, k) ==
    IF text = None \/ text = ""
    THEN [ok |-> FALSE, calls |-> 0, delivered |-> 0, trace |-> <<>>]
    ELSE type_via_keyboard(k)

\* TextTyper.type_text with use_clipboard = True, the default the app uses
type_text(text, c, k) ==
    IF text = None \/ text = ""
    THEN [ok |-> FALSE, calls |-> 0, delivered |-> 0, trace |-> <<>>]
    ELSE type_via_clipboard(c, k)

type_text_clipboard(text, c, k) == type_via_clipboard(c, k)

ClipboardOutcomes == {"ok", "exc_pre", "exc_post"}
KeyboardOutcomes == {"ok", "exc"}

\* lines 491-497: type the text, fall back to the clipboard method
process_audio_type(w, c1, k1, c2, k2) ==
    /\ wk[w].pc = "Wtype"
    /\    LET run == wk[w]
              first == type_text(run.text, c1, k1)
              second == IF first.ok
                        THEN [ok |-> TRUE, calls |-> 0, delivered |-> 0, trace |-> <<>>]
                        ELSE type_text_clipboard(run.text, c2, k2)
          IN  wk' = [wk EXCEPT ![w] =
                        [run EXCEPT !.typed = run.text,
                                    !.inj_calls = first.calls + second.calls,
                                    !.delivered = first.delivered + second.delivered,
                                    !.inj_trace = first.trace \o second.trace,
                                    !.pc = "Wpost"]]
    /\ overlay' = "typing"
    /\ UNCHANGED <<hkVars, hkObs, muVars, muObs, toolVars, cur_timers, tray_seq, appVars, recVars, thrVars, user_muted>>

\* The enhanced flag taken from what the enhancement did
EnhancedFlag_mut(run) == run.en_attempts > 0 /\ ~run.en_failed
\* line 513: the enhanced flag of the history entry
EnhancedFlag(run) == settings.enhance_text /\ enhancer

\* lines 500-515: hide the overlay, add the usage, append the history entry
process_audio_record(w) ==
    /\ wk[w].pc = "Wpost"
    /\ wk' = [wk EXCEPT ![w] =
                 [@ EXCEPT !.stats = TRUE,
                           !.hist = IF EnhancedFlag(wk[w])
                                    THEN "enhanced" ELSE "plain",
                           !.pc = "Wfin"]]
    /\ overlay' = "hide"
    /\ UNCHANGED <<hkVars, hkObs, muVars, muObs, toolVars, cur_timers, tray_seq, appVars, recVars, thrVars, user_muted>>

\* _process_audio without the finally clause: the thread ends with the guard
\* still held
process_audio_finally_mut(w) ==
    /\ wk[w].pc = "Wfin"
    /\ wk' = [wk EXCEPT ![w] = NoRun]
    /\ UNCHANGED <<hkVars, hkObs, muVars, muObs, toolVars, cur_timers, tray_seq, appVars, recVars,
                   overlay, thrVars, user_muted>>

\* _process_audio, lines 407-410: the finally clause releases the guard
process_audio_finally(w) ==
    /\ wk[w].pc = "Wfin"
    /\ is_processing' = FALSE
    /\ wk' = [wk EXCEPT ![w] = NoRun]
    /\ UNCHANGED <<hkVars, hkObs, muVars, muObs, toolVars, cur_timers, tray_seq, app_enabled, settings,
                   transcriber, enhancer, recording_timer, recVars, overlay,
                   thrVars, user_muted>>

\* ---- UI threads ----------------------------------------------------------
\* DitadoApp._on_toggle, line 219 (called by the tray thread)
on_toggle ==
    /\ ~toggle_pending
    /\ app_enabled' = ~app_enabled
    /\ toggle_pending' = TRUE
    /\ UNCHANGED <<hkVars, hkObs, muVars, muObs, toolVars, cur_timers, tray_seq, settings, transcriber, enhancer,
                   recording_timer, is_processing, recVars, overlay, pc, eff,
                   save_pending, wk, user_muted>>

\* HotkeyListener.set_enabled, reached from line 220; waits for the lock
set_enabled ==
    /\ toggle_pending
    /\ ~hk_lock
    /\ hk_enabled' = app_enabled
    /\ toggle_pending' = FALSE
    /\ UNCHANGED <<required_keys, pressed_keys, is_active, hk_lock, phys_down,
                   hkObs, muVars, muObs, toolVars, cur_timers, tray_seq, appVars, recVars, overlay, pc, eff,
                   save_pending, wk, user_muted>>

\* HomeWindow._save_settings, home.py lines 1573-1582: the shared Settings
\* object is rewritten in place
save_settings(new) ==
    /\ ~save_pending
    /\ settings' = new
    /\ save_pending' = TRUE
    /\ UNCHANGED <<hkVars, hkObs, muVars, muObs, toolVars, cur_timers, tray_seq, app_enabled, transcriber,
                   enhancer, recording_timer, is_processing, recVars, overlay,
                   pc, eff, toggle_pending, wk, user_muted>>

\* HotkeyListener.set_hotkey
set_hotkey(hotkey) ==
    /\ required_keys' = parse_hotkey_string(hotkey)
    /\ pressed_keys' = {}
    /\ is_active' = FALSE

\* DitadoApp._on_settings_saved: set_hotkey (waits for the lock) and
\* _init_api_clients
on_settings_saved ==
    /\ save_pending
    /\ ~hk_lock
    /\ set_hotkey(settings.hotkey)
    /\ transcriber' = IF settings.api_key THEN TRUE ELSE transcriber
    /\ enhancer' = IF settings.api_key /\ settings.enhance_text THEN TRUE ELSE enhancer
    /\ save_pending' = FALSE
    /\ UNCHANGED <<hk_enabled, hk_lock, phys_down, hkObs, muVars, muObs, toolVars, cur_timers, tray_seq,
                   app_enabled, settings, recording_timer, is_processing,
                   recVars, overlay, pc, eff, toggle_pending, wk, user_muted>>

(***************************************************************************)
(* Hotkey strings through parse_hotkey_string and keys_to_string.  A       *)
(* string is written by joining tokens with "+"; a token is a key name in  *)
(* some letter case, possibly padded with blanks.                          *)
(***************************************************************************)
MaxTokens == 3
RawTokens == {"f1", "F1", " F1 ", "ctrl_l", "Ctrl_L", "a", "A", " a", "+", "bogus"}

RECURSIVE TokenSeqs(_)
TokenSeqs(n) ==
    IF n = 0 THEN { <<>> }
    ELSE LET shorter == TokenSeqs(n - 1)
         IN  shorter \cup
             { Append(ts, t) : ts \in { x \in shorter : Len(x) = n - 1 }, t \in RawTokens }

KeyCanonAtRest ==
    /\ kc_tokens = <<>>
    /\ kc_keys = <<>>
    /\ kc_out = <<>>
    /\ kc_pc = "idle"

kc_parse ==
    /\ kc_pc = "in"
    /\ kc_keys' = parse_hotkey_string(JoinParts(kc_tokens))
    /\ kc_pc' = "parsed"
    /\ UNCHANGED <<kc_tokens, kc_out>>

kc_join ==
    /\ kc_pc = "parsed"
    /\ kc_out' = keys_to_string(kc_keys)
    /\ kc_pc' = "joined"
    /\ UNCHANGED <<kc_tokens, kc_keys>>

(***************************************************************************)
(* KeyCombinationCaptureDialog.  Key events run on the listener thread and *)
(* the stability timers on threads of their own; the handlers and          *)
(* _finish_capture exclude each other through the dialog's lock.           *)
(***************************************************************************)
max_keys == 2
MaxCapTimers == 2
CapTimerIds == 1..MaxCapTimers
CapEventKeys == {"ctrl_l", "alt_l", "shift_l", "f1", "f13", "a", "A"}

KeyCombinationCaptureDialogInit ==
    /\ cap_pressed_keys = <<>>
    /\ cap_timer = NoTimer
    /\ cap_finished = FALSE
    /\ cap_listening = TRUE
    /\ cap_pc = [t \in CapTimerIds |-> "free"]
    /\ cap_result = [t \in CapTimerIds |-> <<>>]
    /\ cap_calls = <<>>
    /\ cap_started = [t \in CapTimerIds |-> <<>>]
    /\ cap_cancelled = FALSE

\* The test that opens both handlers and _finish_capture (lines 329, 357,
\* 384).
CaptureOver_mut == FALSE
CaptureOver == cap_finished

\* Timer.cancel(): a timer still waiting never runs its function, one
\* whose function has been called is not stopped.
CancelCapTimer(pcs, t) ==
    IF t # NoTimer /\ pcs[t] = "pending" THEN [pcs EXCEPT ![t] = "free"] ELSE pcs

\* threading.Timer(...).start() on the thread cancel() left free, if any
StartCapTimer(pcs) ==
    LET free == { t \in CapTimerIds : pcs[t] = "free" }
        t == CHOOSE x \in free : \A y \in free : x <= y
    IN  [pcs EXCEPT ![t] = "pending"]

NewCapTimer(pcs) ==
    LET free == { t \in CapTimerIds : pcs[t] = "free" }
    IN  CHOOSE x \in free : \A y \in free : x <= y

Remove(seq, key) == SelectSeq(seq, LAMBDA k : k # key)

\* What each running timer was started with, after a step that leaves the
\* timers as pcs and has started timer new (NoTimer if none) on the list keys.
StartedAfter(pcs, new, keys) ==
    [t \in CapTimerIds |->
        IF t = new THEN keys
        ELSE IF pcs[t] = "free" THEN <<>>
        ELSE cap_started[t]]

\* _on_key_press
cap_on_key_press(key) ==
    /\ cap_listening
    /\ IF CaptureOver
       THEN /\ cap_listening' = FALSE
            /\ UNCHANGED <<cap_pressed_keys, cap_timer, cap_pc, cap_started>>
       ELSE LET cancelled == CancelCapTimer(cap_pc, cap_timer)
                key_str == key_to_string(key)
                keys == IF /\ key_str # ""
                           /\ key \notin SeqRange(cap_pressed_keys)
                           /\ Len(cap_pressed_keys) < max_keys
                        THEN Append(cap_pressed_keys, key)
                        ELSE cap_pressed_keys
            IN  /\ { t \in CapTimerIds : cancelled[t] = "free" } # {}
                /\ cap_pressed_keys' = keys
                /\ IF keys # <<>>
                   THEN /\ cap_timer' = NewCapTimer(cancelled)
                        /\ cap_pc' = StartCapTimer(cancelled)
                   ELSE /\ cap_timer' = NoTimer
                        /\ cap_pc' = cancelled
                /\ cap_started' = StartedAfter(cap_pc', cap_timer', keys)
                /\ UNCHANGED cap_listening
    /\ UNCHANGED <<cap_finished, cap_result, cap_calls, cap_cancelled>>

\* _on_key_release
cap_on_key_release(key) ==
    /\ cap_listening
    /\ IF CaptureOver
       THEN /\ cap_listening' = FALSE
            /\ UNCHANGED <<cap_pressed_keys, cap_timer, cap_pc, cap_started>>
       ELSE IF key \in SeqRange(cap_pressed_keys)
       THEN LET keys == Remove(cap_pressed_keys, key)
                cancelled == CancelCapTimer(cap_pc, cap_timer)
            IN  /\ { t \in CapTimerIds : cancelled[t] = "free" } # {}
                /\ cap_pressed_keys' = keys
                /\ IF keys # <<>>
                   THEN /\ cap_timer' = NewCapTimer(cancelled)
                        /\ cap_pc' = StartCapTimer(cancelled)
                   ELSE /\ cap_timer' = NoTimer
                        /\ cap_pc' = cancelled
                /\ cap_started' = StartedAfter(cap_pc', cap_timer', keys)
                /\ UNCHANGED cap_listening
       ELSE UNCHANGED <<cap_pressed_keys, cap_timer, cap_pc, cap_listening,
                        cap_started>>
    /\ UNCHANGED <<cap_finished, cap_result, cap_calls, cap_cancelled>>

\* The stability delay of timer t has run out: its function is called.
CapTimerFires(t) ==
    /\ cap_pc[t] = "pending"
    /\ cap_pc' = [cap_pc EXCEPT ![t] = "F0"]
    /\ UNCHANGED <<cap_pressed_keys, cap_timer, cap_finished, cap_listening,
                   cap_result, cap_calls, cap_started, cap_cancelled>>

\* key_sort_order of _finish_capture: substring tests on the key's name
key_sort_order_mut(k) == 3
key_sort_order(k) ==
    LET key_str == key_to_string(k)
    IN  IF key_str \in {"ctrl", "ctrl_l", "ctrl_r"} THEN 0
        ELSE IF key_str \in {"alt", "alt_l", "alt_r", "alt_gr"} THEN 1
        ELSE IF key_str \in {"shift", "shift_l", "shift_r"} THEN 2
        ELSE 3

\* sorted(keys, key=key_sort_order): a stable insertion sort
RECURSIVE InsertSorted(_, _)
InsertSorted(sorted, k) ==
    IF sorted = <<>> THEN <<k>>
    ELSE IF key_sort_order(sorted[Len(sorted)]) <= key_sort_order(k)
         THEN Append(sorted, k)
         ELSE Append(InsertSorted(SubSeq(sorted, 1, Len(sorted) - 1), k),
                     sorted[Len(sorted)])

RECURSIVE SortedFrom(_, _)
SortedFrom(keys, acc) ==
    IF keys = <<>> THEN acc
    ELSE SortedFrom(Tail(keys), InsertSorted(acc, Head(keys)))

sorted_keys(keys) == SortedFrom(keys, <<>>)

\* _finish_capture, the part under the lock (lines 383-404)
cap_finish_capture(t) ==
    /\ cap_pc[t] = "F0"
    /\ IF CaptureOver \/ cap_pressed_keys = <<>>
       THEN /\ cap_pc' = [cap_pc EXCEPT ![t] = "free"]
            /\ UNCHANGED <<cap_finished, cap_result>>
       ELSE /\ cap_finished' = TRUE
            /\ cap_result' = [cap_result EXCEPT ![t] =
                                 keys_to_string(sorted_keys(cap_pressed_keys))]
            /\ cap_pc' = [cap_pc EXCEPT ![t] = "F1"]
    /\ cap_started' = StartedAfter(cap_pc', NoTimer, <<>>)
    /\ UNCHANGED <<cap_pressed_keys, cap_timer, cap_listening, cap_calls,
                   cap_cancelled>>

\* _finish_capture, after the lock (lines 406-412): stop the listener and
\* hand the result to the callback
cap_finish_callback(t) ==
    /\ cap_pc[t] = "F1"
    /\ Len(cap_calls) < MaxCapTimers
    /\ cap_listening' = FALSE
    /\ cap_calls' = IF cap_result[t] # <<"">>
                    THEN Append(cap_calls, cap_result[t])
                    ELSE cap_calls
    /\ cap_result' = [cap_result EXCEPT ![t] = <<>>]
    /\ cap_pc' = [cap_pc EXCEPT ![t] = "free"]
    /\ cap_started' = StartedAfter(cap_pc', NoTimer, <<>>)
    /\ UNCHANGED <<cap_pressed_keys, cap_timer, cap_finished, cap_cancelled>>

\* cancel(): set _finished and cancel the timer under the lock, then stop
\* the listener
cap_cancel ==
    /\ ~cap_cancelled
    /\ cap_finished' = TRUE
    /\ cap_pc' = CancelCapTimer(cap_pc, cap_timer)
    /\ cap_listening' = FALSE
    /\ cap_cancelled' = TRUE
    /\ cap_started' = StartedAfter(cap_pc', NoTimer, <<>>)
    /\ UNCHANGED <<cap_pressed_keys, cap_timer, cap_result, cap_calls>>

(***************************************************************************)
(* Specifications                                                          *)
(***************************************************************************)
\* The pipeline as constructed with the default settings; the listener and
\* muter specifications leave it alone.
PipelineAtRest ==
    /\ DitadoAppInit
    /\ settings = DefaultSettings
    /\ AudioRecorderInit
    /\ user_muted = sys_muted

Init ==
    /\ DitadoAppInit
    /\ HotkeyListenerInit(settings.hotkey)
    /\ hkObsInit
    /\ sys_muted \in BOOLEAN
    /\ user_muted = sys_muted
    /\ AudioMuterInit
    /\ muObsInit
    /\ AudioRecorderInit
    /\ KeyCombinationCaptureDialogInit
    /\ KeyCanonAtRest

\* The application with every thread.  The worker's remote calls are drawn
\* from RunsQuietly: a transcript or silence, an unchanged enhancement, a
\* paste that works; the COM calls of the muter succeed.
QuietTranscribe == {"", "raw"}
QuietEnhance == {"same"}

Next ==
    \/ \E key \in AppEventKeys : HookPress(key)
    \/ \E key \in AppEventKeys : HookRelease(key)
    \/ on_hotkey_press_arm("ok")
    \/ \E out \in StartOutcomes : on_hotkey_press_start(out, "ok")
    \/ \E t \in TimerIds : TimerFires(t)
    \/ \E t \in TimerIds : auto_stop_recording(t)
    \/ \E t \in Threads : on_hotkey_release_check_timer(t)
    \/ \E t \in Threads : on_hotkey_release_cancel_timer(t)
    \/ \E t \in Threads : on_hotkey_release_restore(t, "ok")
    \/ \E t \in Threads : on_hotkey_release_check_recording(t)
    \/ \E t \in Threads : on_hotkey_release_guard(t)
    \/ \E t \in Threads, audio \in Captured : on_hotkey_release_stop(t, audio)
    \/ \E w \in WorkerIds : process_audio_check_transcriber(w)
    \/ \E w \in WorkerIds, res \in QuietTranscribe : transcribe_attempt(w, res)
    \/ \E w \in WorkerIds : process_audio_check_text(w)
    \/ \E w \in WorkerIds, res \in QuietEnhance : enhance_attempt(w, res)
    \/ \E w \in WorkerIds : process_audio_type(w, "ok", "ok", "ok", "ok")
    \/ \E w \in WorkerIds : process_audio_record(w)
    \/ \E w \in WorkerIds : process_audio_finally(w)

Spec == Init /\ [][Next]_vars

\* One user dictating: the hook thread and the workers, with every outcome of
\* the remote calls and of the injection; the muter's COM calls succeed and the
\* auto-stop deadline is longer than the behaviours considered.
NextRun ==
    \/ \E key \in AppEventKeys : HookPress(key)
    \/ \E key \in AppEventKeys : HookRelease(key)
    \/ on_hotkey_press_arm("ok")
    \/ \E out \in StartOutcomes : on_hotkey_press_start(out, "ok")
    \/ on_hotkey_release_check_timer(Hook)
    \/ on_hotkey_release_cancel_timer(Hook)
    \/ on_hotkey_release_restore(Hook, "ok")
    \/ on_hotkey_release_check_recording(Hook)
    \/ on_hotkey_release_guard(Hook)
    \/ \E audio \in Captured : on_hotkey_release_stop(Hook, audio)
    \/ \E w \in WorkerIds : process_audio_check_transcriber(w)
    \/ \E w \in WorkerIds, res \in TranscribeResults : transcribe_attempt(w, res)
    \/ \E w \in WorkerIds : process_audio_check_text(w)
    \/ \E w \in WorkerIds, res \in EnhanceResults : enhance_attempt(w, res)
    \/ \E w \in WorkerIds, c1 \in ClipboardOutcomes, k1 \in KeyboardOutcomes,
          c2 \in ClipboardOutcomes, k2 \in KeyboardOutcomes :
          process_audio_type(w, c1, k1, c2, k2)
    \/ \E w \in WorkerIds : process_audio_record(w)
    \/ \E w \in WorkerIds : process_audio_finally(w)

SpecRun == Init /\ [][NextRun]_vars


\* The application with the tray toggle and the settings window as well.
\* The auto-stop deadline is long here: an activation finds the timer thread
\* of the recording before it at rest.
PressAtRest(key) ==
    /\ HookPress(key)
    /\ pc'[Hook] = "P1" => Min(TimerIds) \in FreeTimers

NextConfig ==
    \/ \E key \in AppEventKeys : PressAtRest(key)
    \/ \E key \in AppEventKeys : HookRelease(key)
    \/ on_hotkey_press_arm("ok")
    \/ \E out \in StartOutcomes : on_hotkey_press_start(out, "ok")
    \/ \E t \in TimerIds : TimerFires(t)
    \/ \E t \in TimerIds : auto_stop_recording(t)
    \/ \E t \in Threads : on_hotkey_release_check_timer(t)
    \/ \E t \in Threads : on_hotkey_release_cancel_timer(t)
    \/ \E t \in Threads : on_hotkey_release_restore(t, "ok")
    \/ \E t \in Threads : on_hotkey_release_check_recording(t)
    \/ \E t \in Threads : on_hotkey_release_guard(t)
    \/ \E t \in Threads, audio \in Captured : on_hotkey_release_stop(t, audio)
    \/ \E w \in WorkerIds : process_audio_check_transcriber(w)
    \/ \E w \in WorkerIds, res \in QuietTranscribe : transcribe_attempt(w, res)
    \/ \E w \in WorkerIds : process_audio_check_text(w)
    \/ \E w \in WorkerIds, res \in QuietEnhance : enhance_attempt(w, res)
    \/ \E w \in WorkerIds : process_audio_type(w, "ok", "ok", "ok", "ok")
    \/ \E w \in WorkerIds : process_audio_record(w)
    \/ \E w \in WorkerIds : process_audio_finally(w)
    \/ on_toggle
    \/ set_enabled
    \/ \E new \in SavedSettings : save_settings(new)
    \/ on_settings_saved

SpecConfig == Init /\ [][NextConfig]_vars


\* SpecRun with the settings window, under the scheduling the interpreter
\* gives: a thread that can take a step takes it sooner or later (the hook
\* thread inside a callback, each worker thread), and every remote call
\* returns or raises within its httpx timeout.  The user's key events and
\* saves are under no obligation, and the auto-stop deadline is longer than
\* the behaviours considered.
HookSteps ==
    \/ on_hotkey_press_arm("ok")
    \/ \E out \in StartOutcomes : on_hotkey_press_start(out, "ok")
    \/ on_hotkey_release_check_timer(Hook)
    \/ on_hotkey_release_cancel_timer(Hook)
    \/ on_hotkey_release_restore(Hook, "ok")
    \/ on_hotkey_release_check_recording(Hook)
    \/ on_hotkey_release_guard(Hook)
    \/ \E audio \in Captured : on_hotkey_release_stop(Hook, audio)

\* The outcomes SpecRunFair draws: one kind of remote failure, a clipboard
\* path that works or raises before the paste.
FairTranscribe == {"", "raw", "network"}
FairClipboard == {"ok", "exc_pre"}

WorkerSteps(w) ==
    \/ process_audio_check_transcriber(w)
    \/ \E res \in FairTranscribe : transcribe_attempt(w, res)
    \/ process_audio_check_text(w)
    \/ \E res \in EnhanceResults : enhance_attempt(w, res)
    \/ \E c1 \in FairClipboard, k1 \in KeyboardOutcomes,
          c2 \in FairClipboard, k2 \in KeyboardOutcomes :
          process_audio_type(w, c1, k1, c2, k2)
    \/ process_audio_record(w)
    \/ process_audio_finally(w)

\* The settings SpecRunFair starts from and saves: the defaults, with the
\* API key entered or cleared.
KeySettings ==
    { st \in SavedSettings :
         \A f \in DOMAIN st \ {"api_key"} : st[f] = DefaultSettings[f] }

InitRunFair ==
    /\ Init
    /\ settings \in KeySettings
    /\ sys_muted = FALSE

NextRunFair ==
    \/ \E key \in AppEventKeys : PressAtRest(key)
    \/ \E key \in AppEventKeys : HookRelease(key)
    \/ HookSteps
    \/ \E w \in WorkerIds : WorkerSteps(w)
    \/ \E new \in KeySettings : save_settings(new)
    \/ on_settings_saved

\* One user dictating with the chunks of the recorder followed one by one:
\* the hook thread, the workers and the PortAudio thread; the remote calls
\* and the injection succeed, and the auto-stop deadline is longer than the
\* behaviours considered.
InitAudio ==
    /\ Init
    /\ settings = DefaultSettings
    /\ sys_muted = FALSE

NextAudio ==
    \/ \E key \in AppEventKeys : PressAtRest(key)
    \/ \E key \in AppEventKeys : HookRelease(key)
    \/ on_hotkey_press_arm("ok")
    \/ \E out \in StartOutcomes : on_hotkey_press_start(out, "ok")
    \/ on_hotkey_release_check_timer(Hook)
    \/ on_hotkey_release_cancel_timer(Hook)
    \/ on_hotkey_release_restore(Hook, "ok")
    \/ on_hotkey_release_check_recording(Hook)
    \/ on_hotkey_release_guard(Hook)
    \/ \E audio \in Captured : Appended(audio) /\ on_hotkey_release_stop(Hook, audio)
    \/ \E w \in WorkerIds : process_audio_check_transcriber(w)
    \/ \E w \in WorkerIds, res \in QuietTranscribe : transcribe_attempt(w, res)
    \/ \E w \in WorkerIds : process_audio_check_text(w)
    \/ \E w \in WorkerIds, res \in QuietEnhance : enhance_attempt(w, res)
    \/ \E w \in WorkerIds : process_audio_type(w, "ok", "ok", "ok", "ok")
    \/ \E w \in WorkerIds : process_audio_record(w)
    \/ \E w \in WorkerIds : process_audio_finally(w)
    \/ audio_callback /\ UNCHANGED <<hkVars, hkObs, muVars, muObs, toolVars,
                                      appVars, overlay, tray_seq, cur_timers,
                                      thrVars, wk, user_muted>>

SpecAudio == InitAudio /\ [][NextAudio]_vars

SpecRunFair ==
    /\ InitRunFair
    /\ [][NextRunFair]_vars
    /\ WF_vars(HookSteps)
    /\ \A w \in WorkerIds : WF_vars(WorkerSteps(w))

InitHotkeyFixed ==
    /\ \E hotkey \in HotkeyStrings :
          /\ parse_hotkey_string(hotkey) # <<>>
          /\ HotkeyListenerInit(hotkey)
    /\ hkObsInit
    /\ sys_muted = FALSE
    /\ AudioMuterInit
    /\ muObsInit
    /\ PipelineAtRest
    /\ KeyCombinationCaptureDialogInit
    /\ KeyCanonAtRest

NextHotkeyFixed ==
    \/ \E key \in EventKeys : KeyPress(key) /\ UNCHANGED <<muVars, muObs, pipeVars, toolVars>>
    \/ \E key \in EventKeys : KeyRelease(key) /\ UNCHANGED <<muVars, muObs, pipeVars, toolVars>>

SpecHotkeyFixed == InitHotkeyFixed /\ [][NextHotkeyFixed]_vars

InitListener ==
    /\ \E hotkey \in HotkeyStrings : HotkeyListenerInit(hotkey)
    /\ hkObsInit
    /\ sys_muted = FALSE
    /\ AudioMuterInit
    /\ muObsInit
    /\ PipelineAtRest
    /\ KeyCombinationCaptureDialogInit
    /\ KeyCanonAtRest

NextListener ==
    \/ \E key \in EventKeys : KeyPress(key) /\ UNCHANGED <<muVars, muObs, pipeVars, toolVars>>
    \/ \E key \in EventKeys : KeyRelease(key) /\ UNCHANGED <<muVars, muObs, pipeVars, toolVars>>
    \/ \E enabled \in BOOLEAN :
          ListenerSetEnabled(enabled) /\ UNCHANGED <<muVars, muObs, pipeVars, toolVars>>
    \/ \E hotkey \in HotkeyStrings :
          ListenerSetHotkey(hotkey) /\ UNCHANGED <<muVars, muObs, pipeVars, toolVars>>

SpecListener == InitListener /\ [][NextListener]_vars

InitMuter ==
    /\ HotkeyListenerInit(<<"f1">>)
    /\ hkObsInit
    /\ sys_muted \in BOOLEAN
    /\ AudioMuterInit
    /\ muObsInit
    /\ PipelineAtRest
    /\ KeyCombinationCaptureDialogInit
    /\ KeyCanonAtRest

NextMuter ==
    \/ \E out \in MuteOutcomes : MuteCall(out) /\ UNCHANGED <<hkVars, hkObs, pipeVars, toolVars>>
    \/ \E out \in RestoreOutcomes : RestoreCall(out) /\ UNCHANGED <<hkVars, hkObs, pipeVars, toolVars>>

SpecMuter == InitMuter /\ [][NextMuter]_vars

InitCapture ==
    /\ HotkeyListenerInit(<<"f1">>)
    /\ hkObsInit
    /\ sys_muted = FALSE
    /\ AudioMuterInit
    /\ muObsInit
    /\ PipelineAtRest
    /\ KeyCombinationCaptureDialogInit
    /\ KeyCanonAtRest

NextCapture ==
    \/ \E key \in CapEventKeys :
          cap_on_key_press(key) /\ UNCHANGED <<hkVars, hkObs, muVars, muObs, pipeVars, kcVars>>
    \/ \E key \in CapEventKeys :
          cap_on_key_release(key) /\ UNCHANGED <<hkVars, hkObs, muVars, muObs, pipeVars, kcVars>>
    \/ \E t \in CapTimerIds :
          CapTimerFires(t) /\ UNCHANGED <<hkVars, hkObs, muVars, muObs, pipeVars, kcVars>>
    \/ \E t \in CapTimerIds :
          cap_finish_capture(t) /\ UNCHANGED <<hkVars, hkObs, muVars, muObs, pipeVars, kcVars>>
    \/ \E t \in CapTimerIds :
          cap_finish_callback(t) /\ UNCHANGED <<hkVars, hkObs, muVars, muObs, pipeVars, kcVars>>
    \/ cap_cancel /\ UNCHANGED <<hkVars, hkObs, muVars, muObs, pipeVars, kcVars>>

SpecCapture == InitCapture /\ [][NextCapture]_vars

InitKeyCanon ==
    /\ HotkeyListenerInit(<<"f1">>)
    /\ hkObsInit
    /\ sys_muted = FALSE
    /\ AudioMuterInit
    /\ muObsInit
    /\ PipelineAtRest
    /\ KeyCombinationCaptureDialogInit
    /\ kc_tokens \in TokenSeqs(MaxTokens) \ { <<>> }
    /\ kc_keys = <<>>
    /\ kc_out = <<>>
    /\ kc_pc = "in"

NextKeyCanon ==
    \/ kc_parse /\ UNCHANGED <<hkVars, hkObs, muVars, muObs, pipeVars, capVars>>
    \/ kc_join /\ UNCHANGED <<hkVars, hkObs, muVars, muObs, pipeVars, capVars>>

SpecKeyCanon == InitKeyCanon /\ [][NextKeyCanon]_vars

(***************************************************************************)
(* C1: with the listener enabled and the hotkey fixed, the activation      *)
(* callback fires at most once per continuous span in which all required   *)
(* keys are held, the deactivation callback at most once per span, and a   *)
(* deactivation fires only on the release event of a required key.         *)
(***************************************************************************)
C1_OncePerSpan ==
    /\ span_acts <= 1
    /\ span_deacts <= 1
    /\ hk_fired = "deactivate" =>
          /\ last_event[1] = "release"
          /\ key_matches_required(last_event[2], required_keys) # None

\* A repeated press of a held key arrived inside a span that already fired.
C1_Witness ==
    /\ Len(required_keys) = 2
    /\ AllHeld(required_keys, phys_down)
    /\ span_acts = 1
    /\ last_event[1] = "press"
    /\ hk_fired = "none"

(***************************************************************************)
(* C5: after a restore() that follows one or more mute() calls (all calls  *)
(* succeeding) the system mute flag equals its value before the first of   *)
(* those mute() calls.                                                     *)
(***************************************************************************)
C5_MuteSymmetry ==
    ( /\ mu_trace # <<>>
      /\ mu_trace[Len(mu_trace)] = <<"restore", TRUE>>
      /\ mu_mutes >= 1
      /\ mu_all_ok )
    => sys_muted = mu_pre

(***************************************************************************)
(* C6: a restore() that directly follows a restore() which returned True,  *)
(* or that is the first call on the muter, changes neither the system mute *)
(* flag nor the muter's flags.                                             *)
(***************************************************************************)
C6_RestoreIdempotent ==
    LET n == Len(mu_trace)
    IN  ( /\ n >= 1
          /\ mu_trace[n][1] = "restore"
          /\ (n = 1 \/ mu_trace[n - 1] = <<"restore", TRUE>>) )
        => /\ sys_muted = mu_prev.sys
           /\ was_muted = mu_prev.was
           /\ is_muted_by_us = mu_prev.byus

\* mute(); restore(); restore() with every call succeeding.
C6_Witness ==
    /\ Len(mu_trace) = 3
    /\ mu_trace = << <<"mute", TRUE>>, <<"restore", TRUE>>, <<"restore", TRUE>> >>
    /\ mu_pre = FALSE

(***************************************************************************)
(* C2 as stated: a deactivation handler that finds the ProcessingGuard     *)
(* held returns having changed nothing: no timer cancelled, no mute        *)
(* restored, no cue played, recorder, overlay and workers as they were.    *)
(***************************************************************************)
MeetsHeldGuard(t) == pc[t] = "R3" /\ is_processing /\ pc'[t] # "R3"
Alive == { w \in WorkerIds : wk[w].pc # "free" }

C2_DroppedWithoutSideEffects ==
    [][\A t \in Threads :
          MeetsHeldGuard(t) =>
             /\ pc'[t] = Done(t)
             /\ eff[t] = {}
             /\ UNCHANGED <<wk, recVars, overlay, is_processing>>]_vars

(***************************************************************************)
(* C2 amended: a deactivation handler that finds the ProcessingGuard held  *)
(* returns at once: it starts no worker (so at most one run is in flight), *)
(* makes no remote call and leaves the recorder, the overlay, the guard,   *)
(* the timer handle and the mute state as they are at that moment; what it *)
(* did before reaching the guard is limited to cancelling the auto-stop    *)
(* timer, restoring the mute state and playing the end cue.                *)
(***************************************************************************)
C2_DroppedEdge ==
    [][\A t \in Threads :
          MeetsHeldGuard(t) =>
             /\ pc'[t] = Done(t)
             /\ "sound" \in eff[t]
             /\ eff[t] \subseteq {"timer", "mute", "sound"}
             /\ Cardinality(Alive) <= 1
             /\ UNCHANGED <<wk, recVars, overlay, is_processing,
                            recording_timer, muVars>>]_vars

\* A second deactivation edge stands before the guard while a run is in
\* flight and a new recording is open.
C2_Witness ==
    /\ pc[Hook] = "R3"
    /\ is_processing
    /\ Alive # {}
    /\ rec_recording
    /\ {"timer", "mute", "sound"} \subseteq eff[Hook]

(***************************************************************************)
(* C3: at most one _process_audio worker is executing, and the processing  *)
(* flag is true as long as a worker runs.                                  *)
(***************************************************************************)
C3_SingleWorker ==
    /\ Cardinality(Alive) <= 1
    /\ Alive # {} => is_processing

\* The timer thread and the hook thread both run the deactivation handler
\* while a worker is executing.
C3_Witness ==
    /\ Alive # {}
    /\ pc[Hook] \in {"R1", "R2", "R3"}
    /\ \E t \in TimerIds : pc[t] \in {"R1", "R2", "R3"}

(***************************************************************************)
(* C4: when a deactivation handler or a failed arming attempt has          *)
(* completed and no recording is left open, the muter's muted-by-us flag   *)
(* is false and the system mute flag is what the user had set.             *)
(***************************************************************************)
DeactivationReturns(t) == pc[t] \in {"R2", "R3", "R4"} /\ pc'[t] = Done(t)
ArmingFails == pc[Hook] = "P2" /\ pc'[Hook] = "idle" /\ ~rec_recording'

C4_NoMuteLeak ==
    [][( /\ (\E t \in Threads : DeactivationReturns(t)) \/ ArmingFails
         /\ ~rec_recording'
         /\ \A t \in Threads : pc'[t] \in {"idle", "free", "pending", "dead"} )
       => (~is_muted_by_us' /\ sys_muted' = user_muted')]_vars

(***************************************************************************)
(* C7: each remote-call stage makes at most 3 attempts and stops at the    *)
(* first success; the worker has slept 1s before attempt 2 and 1s+2s       *)
(* before attempt 3, and nothing after a success or after the last         *)
(* failure.                                                                *)
(***************************************************************************)
SleptBefore(n) == IF n <= 1 THEN 0 ELSE IF n = 2 THEN 1 ELSE 3

C7_BoundedRetry ==
    \A w \in WorkerIds :
       LET r == wk[w]
       IN  /\ r.tr_attempts <= 3
           /\ r.en_attempts <= 3
           /\ r.pc = "Wtr" =>
                 /\ ~r.tr_ok
                 /\ r.tr_attempts = r.attempt
                 /\ r.tr_attempts < 3
                 /\ r.tr_slept = SleptBefore(r.tr_attempts + 1)
           /\ r.pc \in {"Wchk", "Wen", "Wtype", "Wpost", "Wfin"} =>
                 /\ r.tr_ok => r.tr_slept = SleptBefore(r.tr_attempts)
                 /\ (~r.tr_ok /\ r.tr_attempts > 0) =>
                       (r.tr_attempts = 3 /\ r.tr_slept = SleptBefore(3))
           /\ r.pc = "Wen" =>
                 /\ r.en_attempts = r.attempt
                 /\ r.en_attempts < 3
                 /\ r.en_slept = SleptBefore(r.en_attempts + 1)
           /\ r.pc \in {"Wtype", "Wpost", "Wfin"} =>
                 IF r.en_failed
                 THEN r.en_attempts = 3 /\ r.en_slept = SleptBefore(3)
                 ELSE r.en_slept = SleptBefore(r.en_attempts)

\* Transcription failed twice and succeeded at the third attempt.
C7_Witness ==
    \E w \in WorkerIds :
       /\ wk[w].pc = "Wchk"
       /\ wk[w].tr_ok
       /\ wk[w].text = "raw"
       /\ wk[w].tr_attempts = 3
       /\ wk[w].tr_slept = 3

(***************************************************************************)
(* C8: a run whose 3 transcription attempts all failed calls no            *)
(* enhancement, injects nothing, adds no usage and no history entry, and   *)
(* has notified the user when it ends.                                     *)
(***************************************************************************)
TranscriptionExhausted(r) == r.tr_attempts = MAX_RETRIES /\ ~r.tr_ok

C8_AbortOnExhaustion ==
    \A w \in WorkerIds :
       LET r == wk[w]
       IN  TranscriptionExhausted(r) =>
              /\ r.pc \in {"Wchk", "Wfin"}
              /\ r.en_attempts = 0
              /\ r.inj_calls = 0
              /\ r.typed = None
              /\ ~r.stats
              /\ r.hist = None
              /\ r.pc = "Wfin" => r.notified

C8_Witness ==
    \E w \in WorkerIds :
       /\ TranscriptionExhausted(wk[w])
       /\ wk[w].pc = "Wfin"
       /\ wk[w].notified
       /\ wk[w].last_error = "rate_limit"

(***************************************************************************)
(* C9 as stated: when the first transcription attempt fails with an        *)
(* authentication error, that is the only attempt and no retry delay is    *)
(* slept.                                                                  *)
(***************************************************************************)
C9_AuthNotRetried ==
    \A w \in WorkerIds :
       wk[w].auth_first => (wk[w].tr_attempts = 1 /\ wk[w].tr_slept = 0)

(***************************************************************************)
(* C9 amended: an authentication error is retried like every other         *)
(* transcription error: after a first attempt that failed with one the     *)
(* worker has slept 1s and goes on to a second attempt, and the failure is *)
(* reported only when all 3 attempts have failed.                          *)
(***************************************************************************)
C9_AuthRetried ==
    \A w \in WorkerIds :
       LET r == wk[w]
       IN  r.auth_first =>
              /\ r.tr_slept >= 1
              /\ r.pc = "Wtr" => r.attempt >= 1
              /\ r.pc # "Wtr" => r.tr_attempts >= 2
              /\ (r.notified /\ ~r.tr_ok) => r.tr_attempts = 3

\* Three authentication failures in a row, then the report.
C9_Witness ==
    \E w \in WorkerIds :
       /\ wk[w].auth_first
       /\ wk[w].last_error = "auth"
       /\ wk[w].pc = "Wfin"
       /\ wk[w].tr_attempts = 3
       /\ wk[w].notified

(***************************************************************************)
(* C10: when enhancement failed on every attempt the run goes on with the  *)
(* original transcript: that text is what is handed to the injection, and  *)
(* usage and history are recorded before the run ends.                     *)
(***************************************************************************)
C10_EnhancementNotFatal ==
    \A w \in WorkerIds :
       LET r == wk[w]
       IN  r.en_failed =>
              /\ r.pc \in {"Wtype", "Wpost", "Wfin"}
              /\ r.text = "raw"
              /\ r.pc \in {"Wpost", "Wfin"} => (r.typed = "raw" /\ r.inj_calls >= 1)
              /\ r.pc = "Wfin" => (r.stats /\ r.hist # None)

C10_Witness ==
    \E w \in WorkerIds :
       /\ wk[w].en_failed
       /\ wk[w].en_attempts = 3
       /\ wk[w].pc = "Wfin"
       /\ wk[w].typed = "raw"
       /\ wk[w].stats

(***************************************************************************)
(* C11: when stop() is called on a recording that holds no frames or less  *)
(* than the minimum duration, it returns no payload: the handler starts no *)
(* worker (so no transcription is invoked), releases the processing guard  *)
(* and returns.                                                            *)
(***************************************************************************)
StopStep(t) == pc[t] = "R4" /\ pc'[t] # "R4"

C11_ShortRecordingDropped ==
    [][\A t \in Threads :
          (StopStep(t) /\ rec_recording /\ audio_data'.chunks < MIN_CHUNKS) =>
             /\ wk' = wk
             /\ ~is_processing'
             /\ ~rec_recording'
             /\ overlay' = "hide"
             /\ pc'[t] = Done(t)]_vars

\* A loud recording of one chunk has been stopped and dropped.
C11_Witness ==
    /\ audio_data = [chunks |-> 1, loud |-> TRUE]
    /\ ~rec_recording
    /\ ~is_processing
    /\ Alive = {}
    /\ pc[Hook] = "idle"
    /\ overlay = "hide"

(***************************************************************************)
(* C12: the string a capture emits is the "+"-join of the names of the     *)
(* captured keys with the control modifiers first, then the alt modifiers, *)
(* then the shift modifiers, then every other key, each group in the order *)
(* the keys were pressed; ctrl_l and f1 give "ctrl_l+f1" in either order   *)
(* of pressing.                                                            *)
(***************************************************************************)
IsCtrl(k) == k \in {"ctrl", "ctrl_l", "ctrl_r"}
IsAlt(k) == k \in {"alt", "alt_l", "alt_r", "alt_gr"}
IsShift(k) == k \in {"shift", "shift_l", "shift_r"}
IsPlain(k) == ~IsCtrl(k) /\ ~IsAlt(k) /\ ~IsShift(k)
ModifiersFirst(keys) ==
    SelectSeq(keys, IsCtrl) \o SelectSeq(keys, IsAlt) \o
    SelectSeq(keys, IsShift) \o SelectSeq(keys, IsPlain)
NamesOf(keys) == [i \in 1..Len(keys) |-> IF keys[i] = "A" THEN "a" ELSE keys[i]]
Emitted ==
    { cap_calls[i] : i \in 1..Len(cap_calls) } \cup
    { cap_result[t] : t \in { x \in CapTimerIds : cap_pc[x] = "F1" } }

C12_ModifiersFirst ==
    \A r \in Emitted :
       /\ r = NamesOf(ModifiersFirst(cap_pressed_keys))
       /\ SeqRange(cap_pressed_keys) = {"ctrl_l", "f1"} => r = <<"ctrl_l", "f1">>

\* f1 was pressed before ctrl_l and the capture has been delivered.
C12_Witness ==
    /\ cap_pressed_keys = <<"f1", "ctrl_l">>
    /\ cap_calls = << <<"ctrl_l", "f1">> >>

(***************************************************************************)
(* C13: the result callback of a capture dialog is invoked at most once,   *)
(* and once the capture is finished no key event changes the captured key  *)
(* list, whatever the interleaving of presses, releases and timers.        *)
(***************************************************************************)
C13_SingleCallback ==
    [][/\ Len(cap_calls') <= 1
       /\ (cap_finished \/ cap_calls # <<>>) =>
             cap_pressed_keys' = cap_pressed_keys]_vars

\* The callback has run while a second timer, started after the first had
\* already fired, is waiting for the lock.
C13_Witness ==
    /\ Len(cap_calls) = 1
    /\ \E t \in CapTimerIds : cap_pc[t] = "F0"

(***************************************************************************)
(* C14: for a string of two well-formed tokens (a KEY_MAP name or a single *)
(* printable character, in any letter case, possibly padded), joining the  *)
(* parsed keys gives back the lower-case, trimmed tokens in their order.   *)
(***************************************************************************)
WellFormedToken(t) == Strip(Lower(t)) \in KEY_MAP \cup SingleChars
CanonicalForm(tokens) ==
    JoinParts([i \in 1..Len(tokens) |-> Strip(Lower(tokens[i]))])

C14_RoundTrip ==
    ( /\ kc_pc = "joined"
      /\ Len(kc_tokens) = 2
      /\ \A i \in 1..2 : WellFormedToken(kc_tokens[i]) )
    => kc_out = CanonicalForm(kc_tokens)

(***************************************************************************)
(* C15: with a two-key hotkey, the release of either required key while    *)
(* the hotkey is active fires the deactivation callback, whether or not    *)
(* the other key is still held; and the press of a required key while the  *)
(* hotkey is inactive and the other required key is held fires the         *)
(* activation callback.                                                    *)
(***************************************************************************)
OthersHeld(req, matched, down) ==
    \A i \in 1..Len(req) : req[i] # matched => Phys(req[i]) \in down

C15_AnyKeyDeactivates ==
    [][LET type == last_event'[1]
           matched == key_matches_required(last_event'[2], required_keys)
       IN  (Len(required_keys) = 2 /\ matched # None) =>
              /\ (type = "release" /\ is_active) =>
                    (hk_fired' = "deactivate" /\ ~is_active')
              /\ (type = "press" /\ ~is_active
                     /\ OthersHeld(required_keys, matched, phys_down)) =>
                    (hk_fired' = "activate" /\ is_active')]_vars

\* One key of a two-key hotkey went up, the other is still down, and the
\* deactivation callback has fired.
C15_Witness ==
    /\ Len(required_keys) = 2
    /\ hk_fired = "deactivate"
    /\ last_event[1] = "release"
    /\ pressed_keys # {}
    /\ \E i \in 1..2 : Phys(required_keys[i]) \in phys_down

(***************************************************************************)
(* C16: the listener's pressed-key set holds only required keys that are   *)
(* physically down, whatever the interleaving of key events, set_enabled   *)
(* and set_hotkey calls.                                                   *)
(***************************************************************************)
C16_PressedKeysAreDown ==
    \A k \in pressed_keys :
       k \in SeqRange(required_keys) /\ Phys(k) \in phys_down

(***************************************************************************)
(* C17: while the hotkey string has parsed to the empty key sequence no    *)
(* key event fires the activation or the deactivation callback and the     *)
(* hotkey never becomes active.                                            *)
(***************************************************************************)
C17_EmptySpecDisables ==
    [][required_keys = <<>> =>
          (hk_fired' = "none" /\ (required_keys' = <<>> => ~is_active'))]_vars

\* A key event has reached an enabled listener whose hotkey is empty.
C17_Witness ==
    /\ required_keys = <<>>
    /\ hk_enabled
    /\ last_event[1] = "press"
    /\ phys_down # {}
    /\ hk_fired = "none"

(***************************************************************************)
(* C18: the key sequence parse_hotkey_string returns holds at most 2 keys  *)
(* and no key twice.                                                       *)
(***************************************************************************)
C18_AtMostTwoUniqueKeys ==
    kc_pc \in {"parsed", "joined"} =>
       /\ Len(kc_keys) <= 2
       /\ \A i, j \in 1..Len(kc_keys) : i # j => kc_keys[i] # kc_keys[j]

(***************************************************************************)
(* C19: a deactivation handler that found the recorder recording leaves    *)
(* it stopped: when the handler returns the recorder is not recording and  *)
(* its stream is closed, also while an earlier run is still processing     *)
(* (stated for a handler that is the only one running).                    *)
(***************************************************************************)
InDeactivation(t) == pc[t] \in {"A0", "R0", "R0b", "R1", "R2", "R3", "R4"}

C19_DeactivationStopsRecorder ==
    [][\A t \in Threads :
          ( /\ DeactivationReturns(t)
            /\ pc[t] \in {"R3", "R4"}
            /\ \A u \in Threads \ {t} : ~InDeactivation(u) ) =>
             (~rec_recording' /\ ~rec_stream')]_vars

(***************************************************************************)
(* C20: the recorder is never recording while a processing run is in       *)
(* flight, that is while a worker holds the processing guard.              *)
(***************************************************************************)
C20_NoRecordingWhileProcessing ==
    ~(rec_recording /\ is_processing /\ Alive # {})

(***************************************************************************)
(* C21: whenever the processing guard is held it is released again and the *)
(* run that took it is over (no worker thread left), whatever the outcome  *)
(* of the recording, of the remote calls and of the injection; a worker    *)
(* that runs ends, and it makes at most 3 transcription and 3 enhancement  *)
(* attempts.                                                               *)
(***************************************************************************)
C21_GuardReleased ==
    /\ (is_processing \/ Alive # {}) ~> (~is_processing /\ Alive = {})
    /\ [](\A w \in WorkerIds : /\ wk[w].tr_attempts <= MAX_RETRIES
                               /\ wk[w].en_attempts <= MAX_RETRIES)

\* A worker that used every transcription and every enhancement attempt and
\* whose injection failed stands at the finally clause with the guard held.
C21_Witness ==
    \E w \in WorkerIds :
       /\ wk[w].pc = "Wfin"
       /\ is_processing
       /\ wk[w].tr_attempts = MAX_RETRIES
       /\ wk[w].en_attempts = MAX_RETRIES
       /\ wk[w].en_failed
       /\ wk[w].delivered = 0
       /\ wk[w].stats

(***************************************************************************)
(* C22 as stated: a run that reaches injection first attempts direct       *)
(* keystroke injection and, only if that fails, makes one clipboard-paste  *)
(* attempt; it makes at most two attempts, and a final failure is          *)
(* notified.                                                               *)
(***************************************************************************)
Injected(r) == r.pc \in {"Wpost", "Wfin"} /\ r.typed # None

HasTranscript(r) == r.tr_ok /\ r.text \notin {None, ""}

C23_RecordedOnce ==
    [][\A w \in WorkerIds :
          LET r == wk[w]
              r2 == wk'[w]
          IN  /\ (r.pc = "Wfin" /\ r2.pc = "free") =>
                    /\ r.stats <=> HasTranscript(r)
                    /\ (r.hist # None) <=> HasTranscript(r)
              /\ (r.pc # "free" /\ r2.pc # "free" /\
                     (r2.stats # r.stats \/ r2.hist # r.hist)) =>
                    /\ ~r.stats /\ r.hist = None
                    /\ r2.stats /\ r2.hist # None
                    /\ r2.pc = "Wfin"]_vars

\* A run whose enhancement was skipped has recorded usage and a history
\* entry.
C23_Witness ==
    \E w \in WorkerIds :
       /\ wk[w].pc = "Wfin"
       /\ wk[w].tr_ok
       /\ wk[w].typed = "raw"
       /\ wk[w].en_attempts = 0
       /\ wk[w].stats
       /\ wk[w].hist = "plain"

(***************************************************************************)
(* C24: the history entry of a run carries enhanced = true exactly when    *)
(* enhancement is enabled in the settings and an enhancer exists, whatever *)
(* the enhancement calls did: a run whose enhancement failed on every      *)
(* attempt and that typed the original transcript is recorded as enhanced. *)
(***************************************************************************)
C24_EnhancedFromSetting ==
    \A w \in WorkerIds :
       LET r == wk[w]
       IN  (r.pc = "Wfin" /\ r.hist # None) =>
              /\ (r.hist = "enhanced") <=> (settings.enhance_text /\ enhancer)
              /\ (r.en_failed /\ r.typed = "raw") => r.hist = "enhanced"

\* Enhancement failed three times, the original transcript was typed and
\* the entry says enhanced.
C24_Witness ==
    \E w \in WorkerIds :
       /\ wk[w].pc = "Wfin"
       /\ wk[w].en_failed
       /\ wk[w].en_attempts = MAX_RETRIES
       /\ wk[w].typed = "raw"
       /\ wk[w].hist = "enhanced"

(***************************************************************************)
(* C25 as stated: every abort raises a notification before the pipeline is *)
(* idle again: a failed recorder start, a recording dropped by stop() as   *)
(* silent or too short, a transcription that failed on every attempt;      *)
(* only the enhancement fallback raises none.                              *)
(***************************************************************************)
Notifies == tray_seq' # tray_seq
DropsRecording(t) == StopStep(t) /\ wk' = wk
GivesUpTranscript(w) == wk[w].pc = "Wchk" /\ wk'[w].pc = "Wfin"
EnhancementFallsBack(w) == wk[w].pc = "Wen" /\ wk'[w].en_failed

C25_AllAbortsNotify ==
    [][/\ ArmingFails => Notifies
       /\ \A t \in Threads : DropsRecording(t) => Notifies
       /\ \A w \in WorkerIds :
             /\ (GivesUpTranscript(w) /\ TranscriptionExhausted(wk[w])) => Notifies
             /\ EnhancementFallsBack(w) => ~Notifies]_vars

(***************************************************************************)
(* C25 amended: a failed recorder start, a missing transcriber and a       *)
(* transcription that failed on every attempt each raise a notification    *)
(* in the step that gives the run up; a recording that stop() drops as     *)
(* empty, too short or silent raises none, nor does a transcript that      *)
(* comes back empty without an error, nor the enhancement fallback.        *)
(***************************************************************************)
C25_AbortNotifications ==
    [][/\ ArmingFails => Notifies
       /\ \A t \in Threads : DropsRecording(t) => ~Notifies
       /\ \A w \in WorkerIds :
             /\ (wk[w].pc = "W0" /\ wk'[w].pc = "Wfin") => Notifies
             /\ (GivesUpTranscript(w) /\ TranscriptionExhausted(wk[w])) => Notifies
             /\ (GivesUpTranscript(w) /\ wk[w].last_error = None) => ~Notifies
             /\ EnhancementFallsBack(w) => ~Notifies]_vars

\* A run whose three transcription attempts failed has notified the user.
C25_Witness ==
    \E w \in WorkerIds :
       /\ wk[w].pc = "Wfin"
       /\ ~wk[w].tr_ok
       /\ wk[w].tr_attempts = MAX_RETRIES
       /\ wk[w].notified
       /\ tray_seq = 1

(***************************************************************************)
(* C26: when recorder.start() fails in the activation handler, the handler *)
(* returns with the recorder not recording, the mute it applied undone     *)
(* (the muter no longer holds a mute and the system mute flag is the       *)
(* user's), the overlay hidden, no auto-stop timer scheduled, and the      *)
(* processing guard not taken: it is as it was, and free unless a worker   *)
(* of an earlier recording still runs.                                     *)
(***************************************************************************)
C26_ArmingRollback ==
    [][ArmingFails =>
          /\ ~rec_recording'
          /\ ~is_muted_by_us'
          /\ sys_muted' = user_muted'
          /\ overlay' = "hide"
          /\ recording_timer' = NoTimer
          /\ \A t \in TimerIds : pc'[t] # "pending"
          /\ is_processing' = is_processing
          /\ Alive = {} => ~is_processing']_vars

(***************************************************************************)
(* C27: an auto-stop timer stops only the recording it was started for: a  *)
(* timer thread that calls recorder.stop() on an open recording, and so    *)
(* ends it and may start its processing, is one of the timers started      *)
(* during that recording, however the timer thread, the manual release and *)
(* the next activation interleave.                                         *)
(***************************************************************************)
C27_NoStaleAutoStop ==
    [][\A t \in TimerIds :
          (StopStep(t) /\ rec_recording) => t \in cur_timers]_vars

(***************************************************************************)
(* C28: at most one thread at a time is inside the activation handler or   *)
(* the deactivation handler of the application, the thread of an auto-stop *)
(* timer included.                                                         *)
(***************************************************************************)
InHandler(t) == pc[t] \in {"P1", "P2", "R0", "R0b", "R1", "R2", "R3", "R4"}

C28_HandlersSerialized ==
    Cardinality({ t \in Threads : InHandler(t) }) <= 1

(***************************************************************************)
(* C29: the remote calls are made by the worker thread alone and under no  *)
(* lock.  The handler that hands the payload to a worker returns in the    *)
(* step that starts it, releasing the hotkey lock if it ran on the hook    *)
(* thread; while a worker is at a transcription or enhancement call or in  *)
(* the delay before one, the guard is set and no handler stands between    *)
(* the guard and the start of the worker; and the call itself moves no     *)
(* thread but the worker and touches nothing the hotkey lock, the          *)
(* processing lock, the muter lock or the recorder lock protects.          *)
(***************************************************************************)
AtRemoteCall(w) == wk[w].pc \in {"Wtr", "Wen"}

Finalizes(t) == cap_pc[t] = "F0" /\ cap_pc'[t] = "F1"

C30_StableWindow ==
    [][/\ \A t \in CapTimerIds :
             Finalizes(t) => cap_pressed_keys = cap_started[t]
       /\ cap_pressed_keys' # cap_pressed_keys =>
             \A t \in CapTimerIds :
                cap_pc'[t] = "pending" =>
                   (t = cap_timer' /\ cap_pressed_keys' # <<>>)]_vars

(***************************************************************************)
(* C31.  set_hotkey replaces the required keys, empties the pressed set    *)
(* and clears the active flag without firing a callback; an activation     *)
(* that follows needs a press event, delivered after the change, from      *)
(* every key of the new hotkey: keys held from before do not count.        *)
(***************************************************************************)
C31_SetHotkeyResets ==
    /\ [][last_event'[1] = "set_hotkey" =>
             /\ \E hotkey \in HotkeyStrings :
                   required_keys' = parse_hotkey_string(hotkey)
             /\ pressed_keys' = {}
             /\ ~is_active'
             /\ hk_fired' = "none"
             /\ last_cb' = last_cb]_vars
    /\ [](hk_fired = "activate" =>
             \A i \in 1..Len(required_keys) :
                Phys(required_keys[i]) \in since_change)

\* Every key of the hotkey is down, one of them since before the change and
\* another pressed after it, and the listener has not activated.
C31_Witness ==
    /\ AllHeld(required_keys, phys_down)
    /\ hk_enabled
    /\ last_event[1] = "press"
    /\ hk_fired = "none"
    /\ ~is_active
    /\ last_cb = "none"
    /\ since_change # {}
    /\ \E i \in 1..Len(required_keys) : Phys(required_keys[i]) \notin since_change
(***************************************************************************)
(* C32.  The payload handed to a worker holds only chunks captured during  *)
(* the activation that the deactivation ends: none from an earlier         *)
(* activation, none from the time between two activations.                 *)
(***************************************************************************)
C32_OwnFramesOnly ==
    [][\A t \in Threads :
          (pc[t] = "R4" /\ wk' # wk) => audio_from \subseteq {"cur"}]_vars
(***************************************************************************)
(* C33.  Over press, release, set_enabled and set_hotkey the callbacks     *)
(* alternate, starting with an activation: an activation never follows an  *)
(* activation, a deactivation always follows an activation, and the        *)
(* release of a required key after an activation fires the deactivation.   *)
(***************************************************************************)
C33_CallbacksAlternate ==
    [][/\ hk_fired' = "activate" => last_cb # "activate"
       /\ hk_fired' = "deactivate" => last_cb = "activate"
       /\ (/\ last_event'[1] = "release"
           /\ key_matches_required(last_event'[2], required_keys) # None
           /\ last_cb = "activate") => hk_fired' = "deactivate"]_vars
(***************************************************************************)
(* C34.  A thread that has found the auto-stop timer handle set still      *)
(* finds it set when it calls cancel() on it: no deactivation handler      *)
(* fails between its test of the handle and its use, whichever threads run *)
(* the handler at the same time.                                           *)
(***************************************************************************)
C34_TimerHandleSafe ==
    [][\A t \in Threads :
          (pc[t] = "R0b" /\ pc'[t] # "R0b") => recording_timer # NoTimer]_vars
(***************************************************************************)
(* C35.  At most one auto-stop timer is waiting for its deadline, and a    *)
(* waiting timer was started for the recording that is in progress.        *)
(***************************************************************************)
C35_OnePendingTimer ==
    /\ Cardinality({ t \in TimerIds : pc[t] = "pending" }) <= 1
    /\ \A t \in TimerIds :
          pc[t] = "pending" => (rec_recording /\ t \in cur_timers)
(***************************************************************************)
(* C36.  No deadlock: whenever a thread is inside a handler, a worker is   *)
(* running or a call of the UI thread is waiting for the listener lock,    *)
(* some thread of the program can take a step; and the listener lock is    *)
(* held only by a hook thread that is inside a callback.                   *)
(***************************************************************************)
Busy ==
    \/ pc[Hook] \notin {"idle", "dead"}
    \/ \E t \in TimerIds : pc[t] \notin {"free", "pending"}
    \/ \E w \in WorkerIds : wk[w].pc # "free"
    \/ toggle_pending
    \/ save_pending

ProgramSteps ==
    \/ \E t \in TimerIds : auto_stop_recording(t)
    \/ HookSteps
    \/ \E t \in TimerIds : on_hotkey_release_check_timer(t)
    \/ \E t \in TimerIds : on_hotkey_release_cancel_timer(t)
    \/ \E t \in TimerIds : on_hotkey_release_restore(t, "ok")
    \/ \E t \in TimerIds : on_hotkey_release_check_recording(t)
    \/ \E t \in TimerIds : on_hotkey_release_guard(t)
    \/ \E t \in TimerIds, audio \in Captured : on_hotkey_release_stop(t, audio)
    \/ \E w \in WorkerIds : WorkerSteps(w)
    \/ set_enabled
    \/ on_settings_saved

C36_NoDeadlock ==
    /\ Busy => ENABLED ProgramSteps
    /\ hk_lock => pc[Hook] \notin {"idle", "dead"}
\* The hook thread holds the listener lock inside the deactivation handler,
\* a timer thread is inside the handler as well, a worker is running and
\* both calls of the UI thread are waiting for the lock.
C36_Witness ==
    /\ hk_lock
    /\ pc[Hook] \in {"R1", "R2", "R3", "R4"}
    /\ \E t \in TimerIds : pc[t] \in {"R1", "R2", "R3", "R4"}
    /\ \E w \in WorkerIds : wk[w].pc # "free"
    /\ toggle_pending
    /\ save_pending
(***************************************************************************)
(* C37.  Once cancel() has returned the result callback is not invoked,    *)
(* whatever key events and stability timers are under way.                 *)
(***************************************************************************)
C37_NoCallbackAfterCancel ==
    [][cap_cancelled => cap_calls' = cap_calls]_vars
(***************************************************************************)
(* C38.  The string the capture dialog emits parses back to the keys that  *)
(* were captured: as many keys, and the same physical keys.                *)
(***************************************************************************)
C38_CaptureParsesBack ==
    [][\A t \in CapTimerIds :
          (cap_pc[t] = "F0" /\ cap_pc'[t] = "F1") =>
             LET parsed == parse_hotkey_string(cap_result'[t])
             IN  /\ Len(parsed) = Len(cap_pressed_keys)
                 /\ { Phys(k) : k \in SeqRange(parsed) } =
                    { Phys(k) : k \in SeqRange(cap_pressed_keys) }]_vars
(***************************************************************************)
(* C39.  When the pipeline is idle again (no handler running, no worker,   *)
(* no recording) the last overlay command is hide, and no hide command is  *)
(* issued while a recording is in progress.                                *)
(***************************************************************************)
PipelineIdle ==
    /\ pc[Hook] \in {"idle", "dead"}
    /\ \A t \in TimerIds : pc[t] \in {"free", "pending"}
    /\ \A w \in WorkerIds : wk[w].pc = "free"
    /\ ~rec_recording
    /\ ~is_processing

C39_OverlayMatchesPipeline ==
    /\ [](PipelineIdle => overlay \in {"none", "hide"})
    /\ [][(overlay' = "hide" /\ overlay # "hide") => ~rec_recording']_vars

(***************************************************************************)
(* C40.  The final text of a run reaches the focused application at most   *)
(* once: whatever the clipboard and the keyboard methods do, no run pastes *)
(* or types its text more than one time.                                   *)
(***************************************************************************)
C40_DeliveredAtMostOnce == \A w \in WorkerIds : wk[w].delivered <= 1

====
